---- MODULE Spec2Model ----
(***************************************************************************)
(* Model of the bulk dispatch engine of mail-manager:                      *)
(* src/app/api/send-emails/route.ts, the POST handler of lines 234-610     *)
(* (the file also holds an earlier version of the handler, lines 16-201;   *)
(* the later one is the one modelled).                                     *)
(*                                                                         *)
(* The last section models the list page, src/app/page.tsx, whose          *)
(* component EmailManager builds the recipient list and posts it.          *)
(*                                                                         *)
(* JavaScript is single threaded: an async function runs without           *)
(* interruption from one await to the next.  Every action below is one     *)
(* such run-to-await segment of the handler, of a worker or of             *)
(* sendOneWithRetry.                                                       *)
(*                                                                         *)
(* Strings the code inspects (trim, toLowerCase, includes) are sequences   *)
(* of one-character strings; strings it only copies are TLA+ strings.      *)
(* JavaScript's undefined is the empty sequence for a string and 0 for a   *)
(* number: the code tests both with ! / || only, which treat them alike.   *)
(*                                                                         *)
(* BATCH_SIZE and CONCURRENCY are 40 and 5 in the code (lines 311-312).    *)
(* The model keeps their names and their role but scales them down, so     *)
(* that every interleaving of a dispatch of several batches can be         *)
(* enumerated; every formula is stated in terms of the names.              *)
(***************************************************************************)
EXTENDS Integers, Sequences, FiniteSets, Bags, TLC

VARIABLES
    request,      \* the parsed request body and the environment configuration
    pc,           \* position of the POST handler
    response,     \* the HTTP response, NoResponse until the handler returns
    i,            \* loop variable of the batch loop (0-based offset into emails)
    queue,        \* runBatch's queue: the entries of the batch not yet claimed
    workers,      \* the workers of the running batch
    results,      \* results: Result[]
    successCount,
    failCount,
    verifyCalls,  \* transport stub: number of calls of transporter.verify()
    sendCalls,    \* transport stub: number of calls of transporter.sendMail()
    pauses,       \* timer stub: number of inter-batch setTimeout calls
    order,        \* observer: input position of each entry of results
    claims,       \* observer: input position -> number of times a worker took it
    verified,     \* transport stub: how verify() returned ("none" until it does)
    finalAttempt, \* transport stub: input position -> how its latest sendMail ended
    env,          \* process.env: the transport configuration
    input,        \* argument of the function applied, in the specifications of
                  \* single functions below; NoValue in a dispatch
    output,       \* its result
    page          \* the state of the list page, src/app/page.tsx: the
                  \* component's state variables and its request in flight

dispatchVars ==
    <<request, pc, response, i, queue, workers, results, successCount,
      failCount, verifyCalls, sendCalls, pauses, order, claims, verified,
      finalAttempt, env>>

vars == <<dispatchVars, input, output, page>>

----------------------------------------------------------------------------
(* Bounds of the model and constants of the program *)

MaxRecipients == 4

BATCH_SIZE == 3

CONCURRENCY == 2

MAX_RETRIES == 3

BASE_BACKOFF_MS == 2000

BATCH_DELAY_MS == 3000

----------------------------------------------------------------------------
(* Strings *)

Whitespace == {" ", "\t", "\n"}

RECURSIVE TrimStart(_)
TrimStart(s) ==
    IF s # <<>> /\ Head(s) \in Whitespace THEN TrimStart(Tail(s)) ELSE s

RECURSIVE TrimEnd(_)
TrimEnd(s) ==
    IF s # <<>> /\ s[Len(s)] \in Whitespace
    THEN TrimEnd(SubSeq(s, 1, Len(s) - 1)) ELSE s

Trim(s) == TrimEnd(TrimStart(s))

UpperLetters ==
    <<"A","B","C","D","E","F","G","H","I","J","K","L","M",
      "N","O","P","Q","R","S","T","U","V","W","X","Y","Z">>

LowerLetters ==
    <<"a","b","c","d","e","f","g","h","i","j","k","l","m",
      "n","o","p","q","r","s","t","u","v","w","x","y","z">>

LowerChar(c) ==
    IF \E k \in 1..26 : UpperLetters[k] = c
    THEN LowerLetters[CHOOSE k \in 1..26 : UpperLetters[k] = c]
    ELSE c

ToLowerCase(s) == [k \in 1..Len(s) |-> LowerChar(s[k])]

Includes(s, m) ==
    \E k \in 0..(Len(s) - Len(m)) : SubSeq(s, k + 1, k + Len(m)) = m

IndexFrom(s, c, p) ==
    IF \E k \in p..Len(s) : s[k] = c
    THEN CHOOSE k \in p..Len(s) : s[k] = c /\ \A m \in p..(k - 1) : s[m] # c
    ELSE 0

StartsWith(s, m) == Len(s) >= Len(m) /\ SubSeq(s, 1, Len(m)) = m

----------------------------------------------------------------------------
(* Retry policy *)

\* Every code from 400 up is transient (the test code < 500 lost).
isTransientSmtpError_NoUpperBound(code, resp) ==
    IF code = 0 /\ resp = <<>> THEN FALSE
    ELSE LET text == ToLowerCase(resp) IN
         IF code # 0 /\ code >= 400 THEN TRUE
         ELSE \/ Includes(text, <<"4",".","7",".","0">>)
              \/ Includes(text, <<"4",".","7",".","1">>)
              \/ Includes(text, <<"t","r","y"," ","a","g","a","i","n"," ","l","a","t","e","r">>)
              \/ Includes(text, <<"t","e","m","p","o","r","a","r","i","l","y"," ",
                                  "u","n","a","v","a","i","l","a","b","l","e">>)
              \/ Includes(text, <<"r","e","s","o","u","r","c","e","s"," ",
                                  "t","e","m","p","o","r","a","r","i","l","y"," ",
                                  "u","n","a","v","a","i","l","a","b","l","e">>)
              \/ Includes(text, <<"r","a","t","e"," ","l","i","m","i","t">>)
              \/ Includes(text, <<"q","u","o","t","a"," ","e","x","c","e","e","d","e","d">>)
              \/ Includes(text, <<"g","r","e","y","l","i","s","t">>)
              \/ Includes(text, <<"t","i","m","e","o","u","t">>)
              \/ Includes(text, <<"t","e","m","p","o","r","a","r","y">>)

\* The response text is searched as it is (toLowerCase lost).
isTransientSmtpError_CaseSensitive(code, resp) ==
    IF code = 0 /\ resp = <<>> THEN FALSE
    ELSE LET text == resp IN
         IF code # 0 /\ code >= 400 /\ code < 500 THEN TRUE
         ELSE \/ Includes(text, <<"4",".","7",".","0">>)
              \/ Includes(text, <<"4",".","7",".","1">>)
              \/ Includes(text, <<"t","r","y"," ","a","g","a","i","n"," ","l","a","t","e","r">>)
              \/ Includes(text, <<"t","e","m","p","o","r","a","r","i","l","y"," ",
                                  "u","n","a","v","a","i","l","a","b","l","e">>)
              \/ Includes(text, <<"r","e","s","o","u","r","c","e","s"," ",
                                  "t","e","m","p","o","r","a","r","i","l","y"," ",
                                  "u","n","a","v","a","i","l","a","b","l","e">>)
              \/ Includes(text, <<"r","a","t","e"," ","l","i","m","i","t">>)
              \/ Includes(text, <<"q","u","o","t","a"," ","e","x","c","e","e","d","e","d">>)
              \/ Includes(text, <<"g","r","e","y","l","i","s","t">>)
              \/ Includes(text, <<"t","i","m","e","o","u","t">>)
              \/ Includes(text, <<"t","e","m","p","o","r","a","r","y">>)

\* isTransientSmtpError(code?, response?): code 0 and response <<>> stand for
\* undefined (and for 0 and '', which the code's tests do not tell apart).
isTransientSmtpError(code, resp) ==
    IF code = 0 /\ resp = <<>> THEN FALSE
    ELSE LET text == ToLowerCase(resp) IN
         IF code # 0 /\ code >= 400 /\ code < 500 THEN TRUE
         ELSE \/ Includes(text, <<"4",".","7",".","0">>)
              \/ Includes(text, <<"4",".","7",".","1">>)
              \/ Includes(text, <<"t","r","y"," ","a","g","a","i","n"," ","l","a","t","e","r">>)
              \/ Includes(text, <<"t","e","m","p","o","r","a","r","i","l","y"," ",
                                  "u","n","a","v","a","i","l","a","b","l","e">>)
              \/ Includes(text, <<"r","e","s","o","u","r","c","e","s"," ",
                                  "t","e","m","p","o","r","a","r","i","l","y"," ",
                                  "u","n","a","v","a","i","l","a","b","l","e">>)
              \/ Includes(text, <<"r","a","t","e"," ","l","i","m","i","t">>)
              \/ Includes(text, <<"q","u","o","t","a"," ","e","x","c","e","e","d","e","d">>)
              \/ Includes(text, <<"g","r","e","y","l","i","s","t">>)
              \/ Includes(text, <<"t","i","m","e","o","u","t">>)
              \/ Includes(text, <<"t","e","m","p","o","r","a","r","y">>)

RECURSIVE Pow2(_)
Pow2(n) == IF n = 0 THEN 1 ELSE 2 * Pow2(n - 1)

\* A linear backoff.
Backoff_Linear(attempt) == BASE_BACKOFF_MS * (attempt + 1)

\* BASE_BACKOFF_MS * Math.pow(2, attempt)
Backoff(attempt) == BASE_BACKOFF_MS * Pow2(attempt)

----------------------------------------------------------------------------
(* Content transformer, as far as the dispatch depends on it: rendering is *)
(* a function of the template and the recipient that either returns or     *)
(* throws inside sendOneWithRetry's try block.                             *)

\* Only the doctype declaration makes a full document.
IsFullDocument_DoctypeOnly(trimmed) ==
    StartsWith(ToLowerCase(trimmed), <<"<","!","d","o","c","t","y","p","e"," ","h","t","m","l",">">>)

\* /^\s*<!doctype html>/i or /^\s*<html[^>]*>/i on the trimmed template
IsFullDocument(trimmed) ==
    LET t == ToLowerCase(trimmed) IN
    \/ StartsWith(t, <<"<","!","d","o","c","t","y","p","e"," ","h","t","m","l",">">>)
    \/ /\ StartsWith(t, <<"<","h","t","m","l">>)
       /\ IndexFrom(t, ">", 6) # 0

\* One match of /\[([^\]]+)\]\(([^)]+)\)/ starting at position p, or none.
MatchLinkAt(s, p) ==
    LET j == IndexFrom(s, "]", p + 1)
        k == IF j = 0 THEN 0 ELSE IndexFrom(s, ")", j + 2)
    IN  IF /\ s[p] = "["
           /\ j > p + 1
           /\ j + 1 <= Len(s)
           /\ s[j + 1] = "("
           /\ k > j + 2
        THEN [found |-> TRUE, text |-> SubSeq(s, p + 1, j - 1),
              url |-> SubSeq(s, j + 2, k - 1), end |-> k]
        ELSE [found |-> FALSE, text |-> <<>>, url |-> <<>>, end |-> p]

\* The urls of the matches of the global regex, leftmost first, not overlapping.
RECURSIVE MarkdownLinkUrls(_, _)
MarkdownLinkUrls(s, p) ==
    IF p > Len(s) THEN <<>>
    ELSE LET m == MatchLinkAt(s, p) IN
         IF m.found THEN <<m.url>> \o MarkdownLinkUrls(s, m.end + 1)
         ELSE MarkdownLinkUrls(s, p + 1)

\* The host of an absolute http(s) url: what follows the scheme, up to the
\* first of / ? #.
UrlHost(url) ==
    LET rest == IF StartsWith(ToLowerCase(url), <<"h","t","t","p","s",":","/","/">>)
                THEN SubSeq(url, 9, Len(url)) ELSE SubSeq(url, 8, Len(url))
        ends == {k \in 1..Len(rest) : rest[k] \in {"/", "?", "#"}}
        stop == IF ends = {} THEN Len(rest) + 1
                ELSE CHOOSE k \in ends : \A m \in ends : k <= m
    IN  SubSeq(rest, 1, stop - 1)

IsHttpUrl(url) ==
    \/ StartsWith(ToLowerCase(url), <<"h","t","t","p",":","/","/">>)
    \/ StartsWith(ToLowerCase(url), <<"h","t","t","p","s",":","/","/">>)

\* new URL(url, 'https://dummy.invalid') throws: the url names the http(s)
\* scheme itself (the base is then not used) and its host is empty or holds a
\* character no host may hold.
UrlWithBaseThrows(url) ==
    /\ IsHttpUrl(url)
    /\ \/ UrlHost(url) = <<>>
       \/ \E k \in 1..Len(UrlHost(url)) :
             UrlHost(url)[k] \in {"[", "]", "<", ">", "^", "|", " ", "%"}

\* formatHtmlContent throws on a markdown link whose url the URL constructor
\* rejects with and without the base (lines 360, 363, 365). The other throw
\* of formatHtmlContent, new URL(firstUrl) of line 387, needs a call-to-action
\* line, which no template of Templates has.
FormatThrows(content) ==
    LET trimmed == Trim(content) IN
    /\ ~IsFullDocument(trimmed)
    /\ \E k \in 1..Len(MarkdownLinkUrls(trimmed, 1)) :
          UrlWithBaseThrows(MarkdownLinkUrls(trimmed, 1)[k])

----------------------------------------------------------------------------
(* Personalisation: nameFromEmail, lines 326-336 *)

Alphanumeric ==
    {UpperLetters[k] : k \in 1..26} \cup {LowerLetters[k] : k \in 1..26}
        \cup {"0","1","2","3","4","5","6","7","8","9"}

UpperChar(c) ==
    IF \E k \in 1..26 : LowerLetters[k] = c
    THEN UpperLetters[CHOOSE k \in 1..26 : LowerLetters[k] = c]
    ELSE c

\* str.split(c)[0]
BeforeFirst(str, c) ==
    IF IndexFrom(str, c, 1) = 0 THEN str ELSE SubSeq(str, 1, IndexFrom(str, c, 1) - 1)

\* .replace(/[^a-zA-Z0-9_.-]/g, ' ')
BlankOthers(str) ==
    [k \in 1..Len(str) |->
        IF str[k] \in Alphanumeric \cup {"_", ".", "-"} THEN str[k] ELSE " "]

\* .replace(/[_.-]+/g, ' ')
RECURSIVE BlankSeparators(_)
BlankSeparators(str) ==
    IF str = <<>> THEN <<>>
    ELSE IF Head(str) \in {"_", ".", "-"}
         THEN IF Len(str) > 1 /\ str[2] \in {"_", ".", "-"}
              THEN BlankSeparators(Tail(str))
              ELSE <<" ">> \o BlankSeparators(Tail(str))
         ELSE <<Head(str)>> \o BlankSeparators(Tail(str))

\* .split(/\s+/): the pieces between the runs of whitespace; a string without
\* whitespace, the empty string too, is the only piece.
RECURSIVE SplitWhitespace(_)
SplitWhitespace(str) ==
    LET ws == {k \in 1..Len(str) : str[k] \in Whitespace} IN
    IF ws = {} THEN <<str>>
    ELSE LET k == CHOOSE x \in ws : \A y \in ws : x <= y IN
         <<SubSeq(str, 1, k - 1)>>
            \o SplitWhitespace(TrimStart(SubSeq(str, k, Len(str))))

\* p.charAt(0).toUpperCase() + p.slice(1): the rest is left as typed.
Capitalize_KeepRest(part) ==
    IF part = <<>> THEN <<>> ELSE <<UpperChar(part[1])>> \o Tail(part)

\* p.charAt(0).toUpperCase() + p.slice(1).toLowerCase()
Capitalize(part) ==
    IF part = <<>> THEN <<>> ELSE <<UpperChar(part[1])>> \o ToLowerCase(Tail(part))

\* .join(' ')
RECURSIVE JoinSpace(_)
JoinSpace(parts) ==
    IF parts = <<>> THEN <<>>
    ELSE IF Len(parts) = 1 THEN parts[1]
    ELSE parts[1] \o <<" ">> \o JoinSpace(Tail(parts))

There == <<"t","h","e","r","e">>

\* Lines 326-336. Nothing in the try block throws on a string.
nameFromEmail(email) ==
    LET local == BeforeFirst(email, "@")
        withoutPlus == BeforeFirst(local, "+")
        parts == SplitWhitespace(Trim(BlankSeparators(BlankOthers(withoutPlus))))
    IN  IF Len(parts) = 0 THEN There
        ELSE JoinSpace([k \in 1..Len(parts) |-> Capitalize(parts[k])])

----------------------------------------------------------------------------
(* Link instrumentation: addEmailHashToLinks, lines 347-350 *)

Quotes == {"\"", "'"}

\* The length of the longest prefix of s, from position p, made of characters
\* outside stop.
RunLength(s, p, stop) ==
    LET ends == {k \in p..Len(s) : s[k] \in stop} IN
    IF p > Len(s) THEN 0
    ELSE IF ends = {} THEN Len(s) - p + 1
    ELSE (CHOOSE k \in ends : \A m \in ends : k <= m) - p

\* s has the text m at position p, letter case not counted (flag i).
HasAt(s, p, m) ==
    /\ p + Len(m) - 1 <= Len(s)
    /\ ToLowerCase(SubSeq(s, p, p + Len(m) - 1)) = m

\* One match of /href=(["'])(https?:\/\/[^"'#\s]+)(#[^"']*)?\1/i at position
\* p, or none. Both runs are greedy and end at a character the next element
\* has to be, so no shorter run can match.
MatchHrefAt(s, p) ==
    LET q == IF p + 5 <= Len(s) THEN s[p + 5] ELSE ""
        u == p + 6
        scheme == IF HasAt(s, u, <<"h","t","t","p","s",":","/","/">>) THEN 8
                  ELSE IF HasAt(s, u, <<"h","t","t","p",":","/","/">>) THEN 7
                  ELSE 0
        n == RunLength(s, u + scheme, Quotes \cup Whitespace \cup {"#"})
        h == u + scheme + n
        k == IF h <= Len(s) /\ s[h] = "#" THEN 1 + RunLength(s, h + 1, Quotes) ELSE 0
        e == h + k
    IN  IF /\ HasAt(s, p, <<"h","r","e","f","=">>)
           /\ q \in Quotes
           /\ scheme > 0
           /\ n > 0
           /\ e <= Len(s)
           /\ s[e] = q
        THEN [found |-> TRUE, quote |-> q, url |-> SubSeq(s, u, h - 1),
              hash |-> SubSeq(s, h, e - 1), end |-> e]
        ELSE [found |-> FALSE, quote |-> "", url |-> <<>>, hash |-> <<>>, end |-> p]

\* The replacement without the test of the third group: the address is
\* appended to every match.
HrefReplacement_NoHashTest(s, p, m, email) ==
    <<"h","r","e","f","=">> \o <<m.quote>> \o m.url \o m.hash \o <<"#">> \o email
        \o <<m.quote>>

\* Lines 348-349: hash ? _m : `href=${quote}${url}#${email}${quote}`
HrefReplacement(s, p, m, email) ==
    IF m.hash # <<>> THEN SubSeq(s, p, m.end)
    ELSE <<"h","r","e","f","=">> \o <<m.quote>> \o m.url \o <<"#">> \o email
            \o <<m.quote>>

\* The global replace from position p on: the text up to the next match, the
\* replacement of the match, and the same for what follows the match.
RECURSIVE ReplaceHrefs(_, _, _)
ReplaceHrefs(s, p, email) ==
    LET hits == {q \in p..Len(s) : MatchHrefAt(s, q).found} IN
    IF hits = {} THEN SubSeq(s, p, Len(s))
    ELSE LET q == CHOOSE x \in hits : \A y \in hits : x <= y
             m == MatchHrefAt(s, q)
         IN  SubSeq(s, p, q - 1) \o HrefReplacement(s, q, m, email)
                \o ReplaceHrefs(s, m.end + 1, email)

addEmailHashToLinks(html, email) == ReplaceHrefs(html, 1, email)

----------------------------------------------------------------------------
(* The URL class as formatHtmlContent uses it, for addresses written with    *)
(* letters, digits and the characters / . ? = & # : @ + - _ [ ] and no dot   *)
(* segments: the constructor with and without a base, the hash accessor and  *)
(* toString().                                                                *)

\* The percent-encoding the parser applies to the characters a path, a query
\* or a fragment may not hold as written.
RECURSIVE PercentEncode(_)
PercentEncode(str) ==
    IF str = <<>> THEN <<>>
    ELSE (CASE Head(str) = " "  -> <<"%","2","0">>
            [] Head(str) = "\"" -> <<"%","2","2">>
            [] Head(str) = "<"  -> <<"%","3","C">>
            [] Head(str) = ">"  -> <<"%","3","E">>
            [] OTHER -> <<Head(str)>>) \o PercentEncode(Tail(str))

\* The length of the scheme of an absolute address, its colon included; 0 if
\* the address has no scheme.
SchemeLength(url) ==
    LET k == IndexFrom(url, ":", 1) IN
    IF k > 1 /\ \A m \in 1..(k - 1) : LowerChar(url[m]) \in {LowerLetters[x] : x \in 1..26}
    THEN k ELSE 0

NoUrl == [ok |-> FALSE, base |-> <<>>, hasFragment |-> FALSE, fragment |-> <<>>]

\* new URL(url): ok is FALSE when the constructor throws. base is the
\* serialisation up to the fragment: scheme and host in lower case, the path
\* "/" when the address of an http(s) url has none.
ParseUrl(url) ==
    LET h == IndexFrom(url, "#", 1)
        front == IF h = 0 THEN url ELSE SubSeq(url, 1, h - 1)
        frag == IF h = 0 THEN <<>> ELSE SubSeq(url, h + 1, Len(url))
    IN  IF IsHttpUrl(url)
        THEN LET origin == SchemeLength(url) + 2 + Len(UrlHost(url))
                 rest == SubSeq(front, origin + 1, Len(front))
                 path == IF rest = <<>> THEN <<"/">>
                         ELSE IF Head(rest) = "?" THEN <<"/">> \o rest ELSE rest
             IN  IF UrlWithBaseThrows(url) THEN NoUrl
                 ELSE [ok |-> TRUE,
                       base |-> ToLowerCase(SubSeq(front, 1, origin)) \o PercentEncode(path),
                       hasFragment |-> h # 0, fragment |-> PercentEncode(frag)]
        ELSE IF SchemeLength(url) > 0
        THEN [ok |-> TRUE,
              base |-> ToLowerCase(SubSeq(front, 1, SchemeLength(url)))
                          \o SubSeq(front, SchemeLength(url) + 1, Len(front)),
              hasFragment |-> h # 0, fragment |-> PercentEncode(frag)]
        ELSE NoUrl

\* new URL(url, 'https://dummy.invalid'): an absolute url does not use the base.
ResolveUrl(url) ==
    IF ParseUrl(url).ok \/ IsHttpUrl(url) THEN ParseUrl(url)
    ELSE IF StartsWith(url, <<"/","/">>) THEN ParseUrl(<<"h","t","t","p","s",":">> \o url)
    ELSE IF Head(url) = "/" THEN ParseUrl(<<"h","t","t","p","s",":","/","/","d","u","m","m","y",".","i","n","v","a","l",
          "i","d">> \o url)
    ELSE ParseUrl(<<"h","t","t","p","s",":","/","/","d","u","m","m","y",".","i","n","v","a","l",
          "i","d","/">> \o url)

\* u.hash
UrlHash(u) == IF u.hasFragment /\ u.fragment # <<>> THEN <<"#">> \o u.fragment ELSE <<>>

\* u.hash = value
SetHash(u, value) ==
    IF value = <<>> THEN [u EXCEPT !.hasFragment = FALSE, !.fragment = <<>>]
    ELSE [u EXCEPT !.hasFragment = TRUE,
                   !.fragment = PercentEncode(IF Head(value) = "#" THEN Tail(value)
                                              ELSE value)]

\* u.toString()
UrlToString(u) == u.base \o (IF u.hasFragment THEN <<"#">> \o u.fragment ELSE <<>>)

----------------------------------------------------------------------------
(* formatHtmlContent, lines 352-479 *)

\* Lines 359-360, 363, 365: new URL(url) with the recipient as its fragment if
\* it has none, or else the url resolved against the base, as a string.
\* Defined unless both constructors throw.
LinkHref(url, email) ==
    LET u == ParseUrl(url) IN
    IF u.ok THEN UrlToString(IF UrlHash(u) = <<>> THEN SetHash(u, email) ELSE u)
    ELSE UrlToString(ResolveUrl(url))

\* Line 363
ButtonDiv(href, label) ==
    <<"<","d","i","v"," ","s","t","y","l","e","=","\"","t","e","x","t","-","a",
          "l","i","g","n",":","c","e","n","t","e","r",";","m","a","r","g","i","n",":",
          "2","0","p","x"," ","0",";","\"",">","<","a"," ","h","r","e","f","=","\"">>
        \o href \o <<"\""," ","t","a","r","g","e","t","=","\"","_","b","l","a","n","k","\""," ",
          "c","l","a","s","s","=","\"","b","u","t","t","o","n","\"",">">> \o label \o <<"<","/","a",">","<","/","d","i","v",">">>

\* Lines 358-366: the callback of the markdown-link replace; the button of
\* line 363 or the anchor of line 365.
MarkdownReplacement(m, email) ==
    IF StartsWith(m.text, <<"!","b","t","n","!">>)
    THEN ButtonDiv(LinkHref(m.url, email), Trim(SubSeq(m.text, 6, Len(m.text))))
    ELSE <<"<","a"," ","h","r","e","f","=","\"">> \o LinkHref(m.url, email)
         \o <<"\""," ","s","t","y","l","e","=","\"","c","o","l","o","r",":","#","2","5",
         "6","3","e","b",";","t","e","x","t","-","d","e","c","o","r","a","t","i","o",
         "n",":","u","n","d","e","r","l","i","n","e",";","\""," ","t","a","r","g",
         "e","t","=","\"","_","b","l","a","n","k","\"",">">>
         \o m.text \o <<"<","/","a",">">>

RECURSIVE ReplaceMarkdownLinks(_, _, _)
ReplaceMarkdownLinks(s, p, email) ==
    LET hits == {q \in p..Len(s) : MatchLinkAt(s, q).found} IN
    IF hits = {} THEN SubSeq(s, p, Len(s))
    ELSE LET q == CHOOSE x \in hits : \A y \in hits : x <= y
             m == MatchLinkAt(s, q)
         IN  SubSeq(s, p, q - 1) \o MarkdownReplacement(m, email)
                \o ReplaceMarkdownLinks(s, m.end + 1, email)

\* One match of /https?:\/\/[^...]+/ at position p, the class being the
\* complement of stop; <<>> if none. The regex has no flag i.
UrlAt(s, p, stop) ==
    LET scheme == IF p + 7 <= Len(s) /\ SubSeq(s, p, p + 7) = <<"h","t","t","p","s",":","/","/">> THEN 8
                  ELSE IF p + 6 <= Len(s) /\ SubSeq(s, p, p + 6) = <<"h","t","t","p",":","/","/">> THEN 7
                  ELSE 0
        n == RunLength(s, p + scheme, stop)
    IN  IF scheme > 0 /\ n > 0 THEN SubSeq(s, p, p + scheme + n - 1) ELSE <<>>

\* Lines 368-369: the first match of /https?:\/\/[^\s<)]+/, <<>> for undefined.
FirstUrl(s) ==
    LET hits == {p \in 1..Len(s) : UrlAt(s, p, Whitespace \cup {"<", ")"}) # <<>>} IN
    IF hits = {} THEN <<>>
    ELSE UrlAt(s, CHOOSE p \in hits : \A q \in hits : p <= q, Whitespace \cup {"<", ")"})

\* Lines 372-378: the callback of the bare-url replace; the catch block emits
\* the url as written.
PlainReplacement(url, email) ==
    LET u == ParseUrl(url)
        href == IF u.ok
                THEN UrlToString(IF UrlHash(u) = <<>> THEN SetHash(u, email) ELSE u)
                ELSE url
    IN  <<"<","a"," ","h","r","e","f","=","\"">> \o href
        \o <<"\""," ","s","t","y","l","e","=","\"","c","o","l","o","r",":","#","2","5",
        "6","3","e","b",";","t","e","x","t","-","d","e","c","o","r","a","t","i","o",
        "n",":","u","n","d","e","r","l","i","n","e",";","w","o","r","d","-","b","r",
        "e","a","k",":","b","r","e","a","k","-","a","l","l",";","\""," ","t","a",
        "r","g","e","t","=","\"","_","b","l","a","n","k","\"",">">>
        \o url \o <<"<","/","a",">">>

\* Line 371: the global replace of /(https?:\/\/[^\s<"]+)/g.
\* From position p on: the text up to the next match, the replacement of the
\* match, and the same for what follows the match.
RECURSIVE ReplacePlainLinks(_, _, _)
ReplacePlainLinks(s, p, email) ==
    LET hits == {q \in p..Len(s) : UrlAt(s, q, Whitespace \cup {"<", "\""}) # <<>>} IN
    IF hits = {} THEN SubSeq(s, p, Len(s))
    ELSE LET q == CHOOSE x \in hits : \A y \in hits : x <= y
             url == UrlAt(s, q, Whitespace \cup {"<", "\""})
         IN  SubSeq(s, p, q - 1) \o PlainReplacement(url, email)
                \o ReplacePlainLinks(s, q + Len(url), email)

\* The length of the run of whitespace of s at position p.
WhitespaceRun(s, p) ==
    LET ends == {k \in p..Len(s) : s[k] \notin Whitespace} IN
    IF p > Len(s) THEN 0
    ELSE IF ends = {} THEN Len(s) - p + 1
    ELSE (CHOOSE k \in ends : \A m \in ends : k <= m) - p

\* Lines 381-382: the position of the last character of
\* (?:view\s*more|learn\s*more|see\s*more) matched at position p with flag i, 0 if it does not match.
CtaPhraseEnd(s, p) ==
    LET ends == {p + Len(w) + WhitespaceRun(s, p + Len(w)) + 3 : w \in
                   {w \in { <<"v","i","e","w">>, <<"l","e","a","r","n">>, <<"s","e","e">> } :
                      /\ HasAt(s, p, w)
                      /\ HasAt(s, p + Len(w) + WhitespaceRun(s, p + Len(w)), <<"m","o","r","e">>)}}
    IN  IF ends = {} THEN 0 ELSE CHOOSE e \in ends : TRUE

\* One match of ctaPattern (line 382, flags gi, no flag m) at position p: the
\* prefix is empty at the start of the text and the newline elsewhere; the
\* whitespace after the phrase is given back up to its last newline unless it
\* runs to the end of the text.
MatchCtaAt(s, p) ==
    LET prefix == IF p = 1 THEN <<>> ELSE <<"\n">>
        start == IF p = 1 THEN 1 ELSE p + 1
        e == CtaPhraseEnd(s, start + WhitespaceRun(s, start))
        r == WhitespaceRun(s, e + 1)
        newlines == {k \in (e + 1)..(e + r) : s[k] = "\n"}
        end == IF e + r = Len(s) THEN Len(s)
               ELSE IF newlines = {} THEN 0
               ELSE (CHOOSE k \in newlines : \A m \in newlines : m <= k) - 1
    IN  IF (p = 1 \/ s[p] = "\n") /\ e > 0 /\ end > 0
        THEN [found |-> TRUE, prefix |-> prefix, text |-> SubSeq(s, p, end), end |-> end]
        ELSE [found |-> FALSE, prefix |-> <<>>, text |-> <<>>, end |-> p]

\* .replace(/\s+/g, ' ')
RECURSIVE CollapseWhitespace(_)
CollapseWhitespace(str) ==
    IF str = <<>> THEN <<>>
    ELSE IF Head(str) \in Whitespace
         THEN <<" ">> \o CollapseWhitespace(TrimStart(str))
         ELSE <<Head(str)>> \o CollapseWhitespace(Tail(str))

\* Line 386: trim, lower case, single spaces, the first letter of each word in
\* upper case.
NormalizeCta(text) ==
    LET t == CollapseWhitespace(ToLowerCase(Trim(text))) IN
    [k \in 1..Len(t) |-> IF k = 1 \/ t[k - 1] = " " THEN UpperChar(t[k]) ELSE t[k]]

\* Lines 384-390: the callback of the call-to-action replace. Defined when
\* firstUrl is undefined or new URL(firstUrl) does not throw.
CtaReplacement(m, firstUrl, email) ==
    IF firstUrl = <<>> THEN m.text
    ELSE m.prefix \o ButtonDiv(UrlToString(SetHash(ParseUrl(firstUrl), email)),
                               NormalizeCta(m.text))

RECURSIVE ReplaceCtaLines(_, _, _, _)
ReplaceCtaLines(s, p, firstUrl, email) ==
    LET hits == {q \in p..Len(s) : MatchCtaAt(s, q).found} IN
    IF hits = {} THEN SubSeq(s, p, Len(s))
    ELSE LET q == CHOOSE x \in hits : \A y \in hits : x <= y
             m == MatchCtaAt(s, q)
         IN  SubSeq(s, p, q - 1) \o CtaReplacement(m, firstUrl, email)
                \o ReplaceCtaLines(s, m.end + 1, firstUrl, email)

\* .split('\n')
RECURSIVE SplitLines(_)
SplitLines(str) ==
    IF IndexFrom(str, "\n", 1) = 0 THEN <<str>>
    ELSE <<SubSeq(str, 1, IndexFrom(str, "\n", 1) - 1)>>
            \o SplitLines(SubSeq(str, IndexFrom(str, "\n", 1) + 1, Len(str)))

\* Line 396: /^<div[\s>]/i or /^<a[\s>]/i
IsBlock(line) ==
    \/ HasAt(line, 1, <<"<","d","i","v">>) /\ Len(line) >= 5 /\ line[5] \in Whitespace \cup {">"}
    \/ HasAt(line, 1, <<"<","a">>) /\ Len(line) >= 3 /\ line[3] \in Whitespace \cup {">"}

\* Lines 392-397: the lines trimmed, the empty ones dropped, each one that is
\* not a block wrapped in a paragraph, all joined.
RECURSIVE Paragraphs(_)
Paragraphs(lines) ==
    IF lines = <<>> THEN <<>>
    ELSE LET line == Trim(Head(lines)) IN
         (IF line = <<>> THEN <<>>
          ELSE IF IsBlock(line) THEN line
          ELSE <<"<","p"," ","s","t","y","l","e","=","\"","f","o","n","t","-","s","i","z",
          "e",":","1","5","p","x",";","m","a","r","g","i","n",":","1","5","p","x"," ",
          "0",";","l","i","n","e","-","h","e","i","g","h","t",":","1",".","6",";",
          "\"",">">>
                  \o line \o <<"<","/","p",">">>)
            \o Paragraphs(Tail(lines))

\* encodeURIComponent for the characters of the model's addresses.
RECURSIVE encodeURIComponent(_)
encodeURIComponent(str) ==
    IF str = <<>> THEN <<>>
    ELSE (CASE Head(str) \in Alphanumeric \cup {"-", "_", ".", "!", "~", "*", "'", "(", ")"}
                 -> <<Head(str)>>
            [] Head(str) = "@"  -> <<"%","4","0">>
            [] Head(str) = "+"  -> <<"%","2","B">>
            [] Head(str) = " "  -> <<"%","2","0">>
            [] Head(str) = "#"  -> <<"%","2","3">>
            [] Head(str) = "/"  -> <<"%","2","F">>
            [] Head(str) = ":"  -> <<"%","3","A">>
            [] Head(str) = "\"" -> <<"%","2","2">>
            [] OTHER -> <<"%", Head(str)>>) \o encodeURIComponent(Tail(str))

NoFrame ==
    [title |-> <<>>, year |-> 0, senderName |-> <<>>, physicalAddress |-> <<>>,
     domain |-> <<>>, unsubscribe |-> <<>>]

\* What formatHtmlContent returns, or that it threw. A document given whole
\* is returned as html; otherwise html is the paragraphs and frame holds what
\* the template literal of lines 403-478 puts around them.
Thrown == [threw |-> TRUE, kind |-> "none", html |-> <<>>, frame |-> NoFrame]

\* Lines 392-478: the paragraphs of the text and what the template literal
\* puts around them. physicalAddress is process.env.COMPANY_ADDRESS || '...'
\* (line 401), domain is sender.email.split('@')[1] || 'yourdomain.com' (line
\* 400).
WrapParagraphs(withViewMoreBtn, subjectLine, email, sender, year, companyAddress) ==
    [threw |-> FALSE, kind |-> "wrapped",
     html |-> Paragraphs(SplitLines(withViewMoreBtn)),
     frame |-> [title |-> subjectLine, year |-> year,
                senderName |-> sender.name,
                physicalAddress |->
                    IF companyAddress = "" THEN "Your Company Address, City, Country"
                    ELSE companyAddress,
                domain |->
                    IF IndexFrom(sender.email, "@", 1) = 0
                       \/ BeforeFirst(SubSeq(sender.email,
                                             IndexFrom(sender.email, "@", 1) + 1,
                                             Len(sender.email)), "@") = <<>>
                    THEN <<"y","o","u","r","d","o","m","a","i","n",".","c","o","m">>
                    ELSE BeforeFirst(SubSeq(sender.email,
                                            IndexFrom(sender.email, "@", 1) + 1,
                                            Len(sender.email)), "@"),
                unsubscribe |-> encodeURIComponent(email)]]

\* Lines 381-478: the call-to-action lines made buttons to firstUrl; the
\* callback throws at line 387 when a line matches and new URL(firstUrl) throws.
AddButtons(withPlainLinks, firstUrl, subjectLine, email, sender, year, companyAddress) ==
    IF /\ \E p \in 1..Len(withPlainLinks) : MatchCtaAt(withPlainLinks, p).found
       /\ firstUrl # <<>>
       /\ ~ParseUrl(firstUrl).ok
    THEN Thrown
    ELSE WrapParagraphs(ReplaceCtaLines(withPlainLinks, 1, firstUrl, email),
                        subjectLine, email, sender, year, companyAddress)

\* Lines 354-478, on the trimmed content: a document given whole only has its
\* links instrumented; otherwise the markdown links are replaced, whose
\* callback throws at line 363 or 365 on a url that new URL rejects with and
\* without the base, then firstUrl is taken and the bare urls are made anchors
\* (lines 368-379).
FormatTrimmed(trimmed, subjectLine, email, sender, year, companyAddress) ==
    IF IsFullDocument(trimmed)
    THEN [threw |-> FALSE, kind |-> "document",
          html |-> addEmailHashToLinks(trimmed, email), frame |-> NoFrame]
    ELSE IF \E k \in DOMAIN MarkdownLinkUrls(trimmed, 1) :
               (/\ ~ParseUrl(MarkdownLinkUrls(trimmed, 1)[k]).ok
                /\ ~ResolveUrl(MarkdownLinkUrls(trimmed, 1)[k]).ok) THEN Thrown
    ELSE AddButtons(ReplacePlainLinks(ReplaceMarkdownLinks(trimmed, 1, email), 1, email),
                    FirstUrl(ReplaceMarkdownLinks(trimmed, 1, email)),
                    subjectLine, email, sender, year, companyAddress)

\* Lines 352-479. sender, the clock and COMPANY_ADDRESS are what the function
\* reads besides its arguments.
formatHtmlContent(content, subjectLine, email, sender, year, companyAddress) ==
    FormatTrimmed(Trim(content), subjectLine, email, sender, year, companyAddress)

\* The position of the last character of /\{\{\s*word\s*\}\}/i matched at
\* position p, 0 if it does not match.
PlaceholderEnd(s, p, word) ==
    LET a == p + 2 + WhitespaceRun(s, p + 2)
        b == a + Len(word) + WhitespaceRun(s, a + Len(word))
    IN  IF HasAt(s, p, <<"{", "{">>) /\ HasAt(s, a, word) /\ HasAt(s, b, <<"}", "}">>)
        THEN b + 1 ELSE 0

RECURSIVE ReplacePlaceholder(_, _, _, _)
ReplacePlaceholder(s, p, word, name) ==
    LET hits == {q \in p..Len(s) : PlaceholderEnd(s, q, word) > 0} IN
    IF hits = {} THEN SubSeq(s, p, Len(s))
    ELSE LET q == CHOOSE x \in hits : \A y \in hits : x <= y
         IN  SubSeq(s, p, q - 1) \o name
                \o ReplacePlaceholder(s, PlaceholderEnd(s, q, word) + 1, word, name)

\* Lines 338-345: the four replaces, in the order of the source.
personalizeContent(content, email) ==
    LET name == nameFromEmail(email)
        r1 == ReplacePlaceholder(content, 1, <<"r","e","c","e","i","p","e","t","i","e","n">>, name)
        r2 == ReplacePlaceholder(r1, 1, <<"r","e","c","i","p","i","e","n","t">>, name)
        r3 == ReplacePlaceholder(r2, 1, <<"r","e","c","i","p","i","e","n","t","n","a","m","e">>, name)
    IN  ReplacePlaceholder(r3, 1, <<"n","a","m","e">>, name)

\* The first position from p on where s has the text m (flag i), 0 if none.
FindFrom(s, m, p) ==
    LET hits == {q \in p..Len(s) : HasAt(s, q, m)} IN
    IF hits = {} THEN 0 ELSE CHOOSE q \in hits : \A x \in hits : q <= x

\* .replace(/<tag[\s\S]*?<\/tag>/gi, ' ') with open = "<tag" and close = "</tag>"
RECURSIVE BlankElements(_, _, _, _)
BlankElements(s, p, open, close) ==
    LET hits == {q \in p..Len(s) :
                   HasAt(s, q, open) /\ FindFrom(s, close, q + Len(open)) > 0}
    IN  IF hits = {} THEN SubSeq(s, p, Len(s))
        ELSE LET q == CHOOSE x \in hits : \A y \in hits : x <= y
             IN  SubSeq(s, p, q - 1) \o <<" ">>
                    \o BlankElements(s, FindFrom(s, close, q + Len(open)) + Len(close),
                                     open, close)

\* .replace(/<\/(div|p|br|li|h[1-6])>/gi, '\n')
RECURSIVE BreakAtClosingTags(_, _)
BreakAtClosingTags(s, p) ==
    LET closingTags ==
            { <<"<","/","d","i","v",">">>, <<"<","/","p",">">>, <<"<","/","b","r",">">>,
              <<"<","/","l","i",">">>, <<"<","/","h","1",">">>, <<"<","/","h","2",">">>,
              <<"<","/","h","3",">">>, <<"<","/","h","4",">">>, <<"<","/","h","5",">">>,
              <<"<","/","h","6",">">> }
        hits == {q \in p..Len(s) : \E c \in closingTags : HasAt(s, q, c)}
    IN  IF hits = {} THEN SubSeq(s, p, Len(s))
        ELSE LET q == CHOOSE x \in hits : \A y \in hits : x <= y
             IN  SubSeq(s, p, q - 1) \o <<"\n">>
                    \o BreakAtClosingTags(
                          s, q + Len(CHOOSE c \in closingTags : HasAt(s, q, c)))

\* .replace(/<[^>]+>/g, '')
RECURSIVE DropTags(_, _)
DropTags(s, p) ==
    LET hits == {q \in p..Len(s) :
                   /\ s[q] = "<"
                   /\ RunLength(s, q + 1, {">"}) > 0
                   /\ q + RunLength(s, q + 1, {">"}) + 1 <= Len(s)}
    IN  IF hits = {} THEN SubSeq(s, p, Len(s))
        ELSE LET q == CHOOSE x \in hits : \A y \in hits : x <= y
             IN  SubSeq(s, p, q - 1) \o DropTags(s, q + RunLength(s, q + 1, {">"}) + 2)

\* .replace(/\n{3,}/g, '\n\n')
RECURSIVE SqueezeNewlines(_, _)
SqueezeNewlines(s, p) ==
    LET others == {c \in {s[k] : k \in 1..Len(s)} : c # "\n"}
        hits == {q \in p..Len(s) : RunLength(s, q, others) >= 3}
    IN  IF hits = {} THEN SubSeq(s, p, Len(s))
        ELSE LET q == CHOOSE x \in hits : \A y \in hits : x <= y
             IN  SubSeq(s, p, q - 1) \o <<"\n", "\n">>
                    \o SqueezeNewlines(s, q + RunLength(s, q, others))

\* Lines 316-323
toPlainText(html) ==
    LET a == BlankElements(html, 1, <<"<","s","t","y","l","e">>, <<"<","/","s","t","y","l","e",">">>)
        b == BlankElements(a, 1, <<"<","s","c","r","i","p","t">>, <<"<","/","s","c","r","i","p","t",">">>)
        c == BreakAtClosingTags(b, 1)
        d == DropTags(c, 1)
    IN  Trim(SqueezeNewlines(d, 1))

----------------------------------------------------------------------------
(* Inputs: the requests, the configuration and the transport's answers *)

Min(a, b) == IF a <= b THEN a ELSE b

Addresses == <<"a@x.com", "b@x.com", "c@x.com">>

\* The recipient list of n entries. From the fourth entry on it repeats an
\* address: the handler does not deduplicate.
EmailList(n) == [k \in 1..n |-> Addresses[((k - 1) % Len(Addresses)) + 1]]

Subjects == { <<>>, <<" ">>, <<"H","i">> }

Templates ==
    { <<>>,
      <<" ", "\n">>,
      <<"H","e","l","l","o">>,
      <<"[","x","]","(","h","t","t","p",":","/","/","[",")">> }

SenderAddress == <<"s","@","y",".","o","r","g">>

Senders ==
    { [name |-> <<"S">>, email |-> SenderAddress],
      [name |-> <<>>,    email |-> SenderAddress],
      [name |-> <<"S">>, email |-> <<>>] }

AuthUser == <<"b","o","b","@","x",".","c","o","m">>

AuthPass == <<"p","w">>

Envs ==
    { [SMTP_USER |-> AuthUser, SMTP_PASS |-> AuthPass],
      [SMTP_USER |-> <<>>,     SMTP_PASS |-> AuthPass],
      [SMTP_USER |-> AuthUser, SMTP_PASS |-> <<>>] }

VerifyErrors == { "connect ECONNREFUSED", "Invalid login" }

\* What transporter.sendMail can reject with: responseCode 0 and response <<>>
\* are undefined; message is copied only.
E450 ==
    [responseCode |-> 450,
     response |-> <<"4","5","0"," ","T","r","y"," ","a","g","a","i","n"," ","l","a","t","e","r">>,
     message |-> "450 Try again later", code |-> "EENVELOPE"]

E550 ==
    [responseCode |-> 550,
     response |-> <<"5","5","0"," ","N","o"," ","s","u","c","h"," ","u","s","e","r">>,
     message |-> "550 No such user", code |-> "EENVELOPE"]

SendErrors == { E450, E550 }

\* What new URL(...) throws inside formatHtmlContent.
InvalidUrlError ==
    [responseCode |-> 0, response |-> <<>>, message |-> "Invalid URL",
     code |-> "ERR_INVALID_URL"]

\* info.messageId of an accepted message
MessageIdOf(rcpt) == <<"id", rcpt>>

\* The two classifications below are tables of the operators above over the
\* model's inputs, so that each is computed once.
Transient ==
    [e \in SendErrors \cup {InvalidUrlError} |->
        isTransientSmtpError(e.responseCode, e.response)]

\* personalizeContent (lines 338-345) rewrites placeholder tokens only, and no
\* template of Templates holds one: formatHtmlContent gets the template itself.
RenderThrows == [t \in Templates |-> FormatThrows(t)]

NoResponse == [status |-> 0]

NoValue == [kind |-> "none"]

NoResult == [status |-> "none"]

\* The page as loaded, page.tsx lines 15-21: the initial values of useState.
\* posted is the emails field of the body of the fetch in flight, timers the
\* callbacks handleBulkPaste has scheduled, each with the emailList of the
\* render it was created in.
PageLoaded ==
    [emailList |-> <<>>, emailCount |-> 0, isLoading |-> FALSE,
     posted |-> <<>>, timers |-> <<>>]

NoError == [responseCode |-> 0, response |-> <<>>, message |-> "", code |-> ""]

\* A worker of runBatch together with the locals of the sendOneWithRetry call
\* it awaits. sends, waits, last and lastErr observe that call: the sendMail
\* calls it made, the backoff waits it set, and how its latest attempt ended.
\* mail is the mailOptions object of the latest sendMail call.
NoMail == [from |-> <<>>, to |-> "", envelope |-> [from |-> <<>>, to |-> ""]]

NoWorker ==
    [pc |-> "none", rcpt |-> "", idx |-> 0, attempt |-> 0, sends |-> 0,
     waits |-> <<>>, last |-> "none", lastErr |-> NoError, result |-> NoResult,
     mail |-> NoMail]

----------------------------------------------------------------------------
(* sendOneWithRetry, one run-to-await segment at a time *)

emails == request.emails

\* Line 241
AUTH_USER == env.SMTP_USER

\* Line 483
displayName ==
    IF request.sender.name = <<>>
    THEN <<"S","e","r","v","i","c","e","C","o","n","e","c","t">>
    ELSE request.sender.name

\* The visible From built from the address the operator typed.
fromHeader_SenderAddress ==
    <<"\"">> \o displayName \o <<"\"", " ", "<">> \o request.sender.email \o <<">">>

\* Line 484: `"${displayName}" <${AUTH_USER}>`
fromHeader == <<"\"">> \o displayName \o <<"\"", " ", "<">> \o AUTH_USER \o <<">">>

\* Lines 501-530: the addressing part of mailOptions.
MailOptions(rcpt) ==
    [from |-> fromHeader, to |-> rcpt, envelope |-> [from |-> AUTH_USER, to |-> rcpt]]

\* The catch block's final return (lines 553-563).
FailedResult(rcpt, err) ==
    [email |-> rcpt, status |-> "failed",
     error |-> IF err.message = "" THEN "Unknown SMTP error" ELSE err.message,
     code |-> err.code, response |-> err.response,
     responseCode |-> err.responseCode]

\* Every failure is retried while attempts remain, transient or not.
CatchError_RetryAll(wk, err) ==
    IF wk.attempt < MAX_RETRIES
    THEN [wk EXCEPT !.pc = "backoff", !.waits = Append(@, Backoff(wk.attempt)),
                    !.last = "err", !.lastErr = err]
    ELSE [wk EXCEPT !.pc = "returned", !.result = FailedResult(wk.rcpt, err),
                    !.last = "err", !.lastErr = err]

\* The catch block (lines 544-564): wait and retry, or return the failure.
CatchError(wk, err) ==
    IF Transient[err] /\ wk.attempt < MAX_RETRIES
    THEN [wk EXCEPT !.pc = "backoff", !.waits = Append(@, Backoff(wk.attempt)),
                    !.last = "err", !.lastErr = err]
    ELSE [wk EXCEPT !.pc = "returned", !.result = FailedResult(wk.rcpt, err),
                    !.last = "err", !.lastErr = err]

\* Line 543: the return of the try block.
SuccessReturn(wk) ==
    [wk EXCEPT !.pc = "returned", !.last = "ok",
               !.result = [email |-> wk.rcpt, status |-> "success",
                           responseId |-> MessageIdOf(wk.rcpt)]]

\* The loop runs while attempt < MAX_RETRIES: the last retry is never made.
TryAttempt_OffByOne(wk) ==
    IF wk.attempt < MAX_RETRIES
    THEN IF RenderThrows[request.htmlContent]
         THEN CatchError(wk, InvalidUrlError)
         ELSE [wk EXCEPT !.pc = "sending", !.sends = @ + 1,
                         !.mail = MailOptions(wk.rcpt)]
    ELSE [wk EXCEPT !.pc = "returned",
                    !.result = [email |-> wk.rcpt, status |-> "failed",
                                error |-> "Exceeded retry attempts"]]

\* The rendering is done before the try block: what it throws rejects the
\* worker's promise instead of being caught.
TryAttempt_Uncaught(wk) ==
    IF wk.attempt <= MAX_RETRIES
    THEN IF RenderThrows[request.htmlContent]
         THEN [wk EXCEPT !.pc = "thrown"]
         ELSE [wk EXCEPT !.pc = "sending", !.sends = @ + 1,
                         !.mail = MailOptions(wk.rcpt)]
    ELSE [wk EXCEPT !.pc = "returned",
                    !.result = [email |-> wk.rcpt, status |-> "failed",
                                error |-> "Exceeded retry attempts"]]

\* The loop test and the try block up to the await of sendMail (lines 492-541);
\* line 566 when the loop test fails.
TryAttempt(wk) ==
    IF wk.attempt <= MAX_RETRIES
    THEN IF RenderThrows[request.htmlContent]
         THEN CatchError(wk, InvalidUrlError)
         ELSE [wk EXCEPT !.pc = "sending", !.sends = @ + 1,
                         !.mail = MailOptions(wk.rcpt)]
    ELSE [wk EXCEPT !.pc = "returned",
                    !.result = [email |-> wk.rcpt, status |-> "failed",
                                error |-> "Exceeded retry attempts"]]

\* attempt++ lost.
NextAttempt_Stuck(wk) == wk

\* Line 550: attempt++
NextAttempt(wk) == [wk EXCEPT !.attempt = @ + 1]

\* The call sendOneWithRetry(rcpt) up to its first await.
CallSendOne(rcpt, idx) ==
    TryAttempt([NoWorker EXCEPT !.rcpt = rcpt, !.idx = idx])

\* sendMail calls made by a segment that took a worker to state nw.
NewSends(nw) == IF nw.pc = "sending" THEN 1 ELSE 0

----------------------------------------------------------------------------
(* runBatch and the batch loop *)

\* One worker per entry of the batch, as batch.map(send) would start.
WorkerCount_Unbounded(batch) == Len(batch)

\* Line 585: the number of workers runBatch starts.
WorkerCount(batch) == Min(CONCURRENCY, Len(batch))

\* Line 590: emails.slice(off, off + BATCH_SIZE)
\* slice(i, BATCH_SIZE): the second argument taken for an end index.
SliceAt_CountArg(list, off, size) == SubSeq(list, off + 1, Min(size, Len(list)))

\* Line 590: list.slice(off, off + size)
SliceAt(list, off, size) == SubSeq(list, off + 1, Min(off + size, Len(list)))

\* The pause is taken after every batch, the last one too.
MoreBatches_Inclusive(off, n, size) == off + size <= n

\* Line 592: i + BATCH_SIZE < emails.length
MoreBatches(off, n, size) == off + size < n

BatchAt(off) == SliceAt(emails, off, BATCH_SIZE)

\* runBatch(batch) up to await Promise.all (lines 574-586): each worker() runs
\* until its first await, one after the other, so worker w takes entry w.
StartBatch(off) ==
    LET batch == BatchAt(off)
        k == WorkerCount(batch)
        started == [w \in 1..k |-> CallSendOne(batch[w], off + w)]
        senders == {w \in 1..k : started[w].pc = "sending"}
    IN  /\ i' = off
        /\ queue' = SubSeq(batch, k + 1, Len(batch))
        /\ workers' = started
        /\ sendCalls' = sendCalls + Cardinality(senders)
        /\ claims' = [x \in DOMAIN claims |->
                        IF x - off \in 1..k THEN claims[x] + 1 ELSE claims[x]]
        /\ finalAttempt' = [x \in DOMAIN finalAttempt |->
                              IF x - off \in senders THEN "pending" ELSE finalAttempt[x]]
        /\ pc' = "batch"

\* Promise.race in place of Promise.all.
AllWorkersDone_Race == \E w \in DOMAIN workers : workers[w].pc = "done"

\* Line 586: await Promise.all(workers)
AllWorkersDone == \A w \in DOMAIN workers : workers[w].pc = "done"

\* Only successes are pushed.
PushResult_SuccessOnly(r) == IF r.status = "success" THEN Append(results, r) ELSE results

\* results.unshift(r)
PushResult_Unshift(r) == <<r>> \o results

\* Line 580: results.push(r)
PushResult(r) == Append(results, r)

\* Every outcome is counted as a success.
NextSuccessCount_Always(r) == successCount + 1

\* Line 581: if (r.status === 'success') successCount++
NextSuccessCount(r) == IF r.status = "success" THEN successCount + 1 ELSE successCount

\* The else branch lost: failures are never counted.
NextFailCount_NoElse(r) == failCount

\* Line 582: else failCount++
NextFailCount(r) == IF r.status = "success" THEN failCount ELSE failCount + 1

\* queue[0] read without removing it.
ShiftQueue_Peek == queue

\* Line 578: queue.shift() leaves the rest of the queue.
ShiftQueue == Tail(queue)

\* The response of line 604.
Summary200 ==
    [status |-> 200,
     body |-> [success |-> TRUE, message |-> <<"Processed", Len(emails), "email(s)">>,
               summary |-> [total |-> Len(emails), success |-> successCount,
                            failed |-> failCount],
               results |-> results]]

Error400(msg) == [status |-> 400, body |-> [success |-> FALSE, message |-> msg]]

----------------------------------------------------------------------------
(* The handler *)

Init ==
    /\ \E n \in 0..MaxRecipients, s \in Subjects, t \in Templates, sd \in Senders :
          request = [emails |-> EmailList(n), subject |-> s, htmlContent |-> t,
                     sender |-> sd]
    /\ env \in Envs
    /\ pc = "received"
    /\ response = NoResponse
    /\ i = 0
    /\ queue = <<>>
    /\ workers = <<>>
    /\ results = <<>>
    /\ successCount = 0
    /\ failCount = 0
    /\ verifyCalls = 0
    /\ sendCalls = 0
    /\ pauses = 0
    /\ order = <<>>
    /\ claims = [x \in 1..Len(request.emails) |-> 0]
    /\ verified = "none"
    /\ finalAttempt = [x \in 1..Len(request.emails) |-> "none"]
    /\ input = NoValue
    /\ output = NoValue
    /\ page = PageLoaded

\* The subject and the template tested without trim().
ValidationError_NoTrim ==
    IF Len(request.emails) = 0 THEN "No email addresses provided"
    ELSE IF request.subject = <<>> THEN "Email subject is required"
    ELSE IF request.htmlContent = <<>> THEN "Email content is required"
    ELSE IF request.sender.email = <<>> \/ request.sender.name = <<>>
         THEN "Sender information is required"
    ELSE ""

\* Lines 237-240: the message of the first validation that fails, "" if none.
ValidationError ==
    IF Len(request.emails) = 0 THEN "No email addresses provided"
    ELSE IF Trim(request.subject) = <<>> THEN "Email subject is required"
    ELSE IF Trim(request.htmlContent) = <<>> THEN "Email content is required"
    ELSE IF request.sender.email = <<>> \/ request.sender.name = <<>>
         THEN "Sender information is required"
    ELSE ""

\* Only the account name is tested.
ConfigMissing_UserOnly == env.SMTP_USER = <<>>

\* Lines 243-247.
ConfigMissing == env.SMTP_USER = <<>> \/ env.SMTP_PASS = <<>>

\* The await of line 288 lost: the batches start while verify() is pending.
Post_NoAwait ==
    /\ pc = "received"
    /\ IF ValidationError # ""
       THEN /\ response' = Error400(ValidationError)
            /\ pc' = "done"
            /\ UNCHANGED <<verifyCalls, i, queue, workers, sendCalls, claims, finalAttempt>>
       ELSE /\ verifyCalls' = verifyCalls + 1
            /\ StartBatch(0)
            /\ UNCHANGED response
    /\ UNCHANGED <<page, input, output, request, env, results, successCount, failCount, pauses, order,
                   verified>>

\* Lines 234-288: from the parsed request to the await of transporter.verify().
Post ==
    /\ pc = "received"
    /\ IF ValidationError # ""
       THEN /\ response' = Error400(ValidationError)
            /\ pc' = "done"
            /\ UNCHANGED verifyCalls
       ELSE IF ConfigMissing
            THEN /\ response' =
                      [status |-> 500,
                       body |-> [success |-> FALSE,
                                 message |-> "SMTP not configured (EMAIL_USER/EMAIL_PASS missing)"]]
                 /\ pc' = "done"
                 /\ UNCHANGED verifyCalls
            ELSE /\ verifyCalls' = verifyCalls + 1
                 /\ pc' = "verifying"
                 /\ UNCHANGED response
    /\ UNCHANGED <<page, input, output, request, env, i, queue, workers, results, successCount, failCount,
                   sendCalls, pauses, order, claims, verified, finalAttempt>>

\* The diagnostic also reports the password in use.
VerifyFailedBodyFor_WithPass(cfg, e) ==
    [success |-> FALSE, message |-> "SMTP verification failed", error |-> e,
     details |-> [host |-> "mail.privateemail.com", port |-> 465, secure |-> TRUE,
                  user |-> SubSeq(cfg.SMTP_USER, 1, Min(3, Len(cfg.SMTP_USER)))
                           \o <<".", ".", ".">>,
                  pass |-> cfg.SMTP_PASS,
                  authMethod |-> "PLAIN"]]

\* The body of the 500 response of lines 294-308 under the configuration cfg.
VerifyFailedBodyFor(cfg, e) ==
    [success |-> FALSE, message |-> "SMTP verification failed", error |-> e,
     details |-> [host |-> "mail.privateemail.com", port |-> 465, secure |-> TRUE,
                  user |-> SubSeq(cfg.SMTP_USER, 1, Min(3, Len(cfg.SMTP_USER)))
                           \o <<".", ".", ".">>,
                  authMethod |-> "PLAIN"]]

VerifyFailedBody(e) == VerifyFailedBodyFor(env, e)

\* The failure is answered for but the handler goes on to the batches
\* (the return of line 294 lost).
VerifyFails_NoReturn ==
    /\ pc = "verifying"
    /\ verified' = "failed"
    /\ StartBatch(0)
    /\ UNCHANGED <<page, input, output, request, env, response, results, successCount, failCount,
                   verifyCalls, pauses, order>>

\* Lines 290-309: verify() rejected.
VerifyFails ==
    /\ pc = "verifying"
    /\ verified' = "failed"
    /\ \E e \in VerifyErrors : response' = [status |-> 500, body |-> VerifyFailedBody(e)]
    /\ pc' = "done"
    /\ UNCHANGED <<page, input, output, request, env, i, queue, workers, results, successCount, failCount,
                   verifyCalls, sendCalls, pauses, order, claims, finalAttempt>>

\* Lines 289, 311-591: verify() resolved; the first batch starts.
VerifySucceeds ==
    /\ pc = "verifying"
    /\ verified' = "ok"
    /\ StartBatch(0)
    /\ UNCHANGED <<page, input, output, request, env, response, results, successCount, failCount,
                   verifyCalls, pauses, order>>

\* Lines 541-543: sendMail resolved.
SendResolves(w) ==
    /\ pc = "batch"
    /\ workers[w].pc = "sending"
    /\ workers' = [workers EXCEPT ![w] = SuccessReturn(@)]
    /\ finalAttempt' = [finalAttempt EXCEPT ![workers[w].idx] = "ok"]
    /\ UNCHANGED <<page, input, output, request, env, pc, response, i, queue, results, successCount,
                   failCount, verifyCalls, sendCalls, pauses, order, claims, verified>>

\* Lines 544-564: sendMail rejected with err.
SendRejects(w, err) ==
    /\ pc = "batch"
    /\ workers[w].pc = "sending"
    /\ workers' = [workers EXCEPT ![w] = CatchError(@, err)]
    /\ finalAttempt' = [finalAttempt EXCEPT ![workers[w].idx] = "err"]
    /\ UNCHANGED <<page, input, output, request, env, pc, response, i, queue, results, successCount,
                   failCount, verifyCalls, sendCalls, pauses, order, claims, verified>>

\* Lines 549-551 and the next turn of the loop: the backoff timer fired.
BackoffElapses(w) ==
    /\ pc = "batch"
    /\ workers[w].pc = "backoff"
    /\ LET nw == TryAttempt(NextAttempt(workers[w])) IN
          /\ workers' = [workers EXCEPT ![w] = nw]
          /\ sendCalls' = sendCalls + NewSends(nw)
          /\ finalAttempt' = IF nw.pc = "sending"
                             THEN [finalAttempt EXCEPT ![nw.idx] = "pending"]
                             ELSE finalAttempt
    /\ UNCHANGED <<page, input, output, request, env, pc, response, i, queue, results, successCount,
                   failCount, verifyCalls, pauses, order, claims, verified>>

\* Lines 577-583: the worker resumes after await sendOneWithRetry(rcpt),
\* records the outcome and takes the next entry of the queue, if any.
WorkerContinues(w) ==
    /\ pc = "batch"
    /\ workers[w].pc = "returned"
    /\ LET r == workers[w].result
           idx == i + Len(BatchAt(i)) - Len(queue) + 1
           nw == IF queue # <<>> THEN CallSendOne(Head(queue), idx)
                 ELSE [NoWorker EXCEPT !.pc = "done"]
       IN /\ results' = PushResult(r)
          /\ order' = Append(order, workers[w].idx)
          /\ successCount' = NextSuccessCount(r)
          /\ failCount' = NextFailCount(r)
          /\ queue' = IF queue # <<>> THEN ShiftQueue ELSE queue
          /\ workers' = [workers EXCEPT ![w] = nw]
          /\ sendCalls' = sendCalls + NewSends(nw)
          /\ claims' = IF queue # <<>> THEN [claims EXCEPT ![idx] = @ + 1] ELSE claims
          /\ finalAttempt' = IF nw.pc = "sending"
                             THEN [finalAttempt EXCEPT ![idx] = "pending"]
                             ELSE finalAttempt
    /\ UNCHANGED <<page, input, output, request, env, pc, response, i, verifyCalls, pauses, verified>>

\* Lines 586-595, 604-609: Promise.all(workers) resolved; pause, or respond.
BatchJoins ==
    /\ pc = "batch"
    /\ AllWorkersDone
    /\ IF MoreBatches(i, Len(emails), BATCH_SIZE)
       THEN /\ pc' = "pause"
            /\ pauses' = pauses + 1
            /\ UNCHANGED response
       ELSE /\ pc' = "done"
            /\ response' = Summary200
            /\ UNCHANGED pauses
    /\ UNCHANGED <<page, input, output, request, env, i, queue, workers, results, successCount, failCount,
                   verifyCalls, sendCalls, order, claims, verified, finalAttempt>>

\* Lines 589-591: the inter-batch timer fired; the next batch starts.
PauseElapses ==
    /\ pc = "pause"
    /\ StartBatch(i + BATCH_SIZE)
    /\ UNCHANGED <<page, input, output, request, env, response, results, successCount, failCount,
                   verifyCalls, pauses, order, verified>>

Next ==
    \/ Post
    \/ VerifyFails
    \/ VerifySucceeds
    \/ \E w \in DOMAIN workers : SendResolves(w)
    \/ \E w \in DOMAIN workers, err \in SendErrors : SendRejects(w, err)
    \/ \E w \in DOMAIN workers : BackoffElapses(w)
    \/ \E w \in DOMAIN workers : WorkerContinues(w)
    \/ BatchJoins
    \/ PauseElapses

Spec == Init /\ [][Next]_vars

\* Every pending verify(), sendMail() and timer settles and the event loop runs
\* the continuation that waits for it: no enabled step is postponed forever.
SpecFair == Spec /\ WF_vars(Next)

----------------------------------------------------------------------------
(* isTransientSmtpError on its own: one classification per behaviour *)

\* err.responseCode: 0 is undefined.
ResponseCodes == {0, 250, 399, 400, 421, 450, 499, 500, 550, 552, 554, 599, 600}

\* err.response: <<>> is undefined.
ResponseTexts ==
    { <<>>,
      <<"5","5","0"," ","N","o"," ","s","u","c","h"," ","u","s","e","r">>,
      <<"4","5","0"," ","T","r","y"," ","a","g","a","i","n"," ","l","a","t","e","r">>,
      <<"R","A","T","E"," ","L","I","M","I","T"," ","h","i","t">>,
      <<"O","v","e","r"," ","q","u","o","t","a">>,
      <<"Q","u","o","t","a"," ","e","x","c","e","e","d","e","d">>,
      <<"G","r","e","y","l","i","s","t","e","d">>,
      <<"R","e","a","d"," ","T","i","m","e","o","u","t">>,
      <<"5","5","4"," ","4",".","7",".","0"," ","w","a","i","t">>,
      <<"4",".","7",".","1">>,
      <<"T","e","m","p","o","r","a","r","y"," ","f","a","u","l","t">>,
      <<"t","e","m","p","o","r","a","r","i","l","y"," ","u","n","a","v","a","i","l","a","b","l","e">>,
      <<"M","a","i","l","b","o","x"," ","f","u","l","l">> }

\* No dispatch runs: the handler's state is that of a request not yet received.
NoDispatch ==
    /\ request = [emails |-> <<>>, subject |-> <<>>, htmlContent |-> <<>>,
                  sender |-> [name |-> <<>>, email |-> <<>>]]
    /\ env = [SMTP_USER |-> <<>>, SMTP_PASS |-> <<>>]
    /\ pc = "none"
    /\ response = NoResponse
    /\ i = 0
    /\ queue = <<>>
    /\ workers = <<>>
    /\ results = <<>>
    /\ successCount = 0
    /\ failCount = 0
    /\ verifyCalls = 0
    /\ sendCalls = 0
    /\ pauses = 0
    /\ order = <<>>
    /\ claims = <<>>
    /\ verified = "none"
    /\ finalAttempt = <<>>
    /\ page = PageLoaded

ClassifyInit ==
    /\ NoDispatch
    /\ \E c \in ResponseCodes, t \in ResponseTexts :
          input = [kind |-> "failure", code |-> c, response |-> t]
    /\ output = NoValue

\* Line 547: isTransientSmtpError(code, resp)
Classify ==
    /\ input.kind = "failure"
    /\ output = NoValue
    /\ output' = [kind |-> "class",
                  transient |-> isTransientSmtpError(input.code, input.response)]
    /\ UNCHANGED <<dispatchVars, input, page>>

SpecClassify == ClassifyInit /\ [][Classify]_vars

----------------------------------------------------------------------------
(* The batch loop of lines 589-595 with the batch size of the source, over   *)
(* lists of up to MaxListLen entries. An entry stands for its input          *)
(* position; runBatch is one step.                                           *)

FULL_BATCH_SIZE == 40

MaxListLen == 125

BatchesInit ==
    /\ NoDispatch
    /\ \E n \in 1..MaxListLen : input = [kind |-> "list", emails |-> [k \in 1..n |-> k]]
    /\ output = [kind |-> "loop", i |-> 0, batches |-> <<>>, pauses |-> 0]

\* One iteration: the loop test, the slice, runBatch, the pause test, i += size.
LoopIteration ==
    /\ input.kind = "list"
    /\ output.kind = "loop"
    /\ output.i < Len(input.emails)
    /\ output' = [kind |-> "loop",
                  i |-> output.i + FULL_BATCH_SIZE,
                  batches |-> Append(output.batches,
                                     SliceAt(input.emails, output.i, FULL_BATCH_SIZE)),
                  pauses |-> IF MoreBatches(output.i, Len(input.emails), FULL_BATCH_SIZE)
                             THEN output.pauses + 1 ELSE output.pauses]
    /\ UNCHANGED <<dispatchVars, input, page>>

SpecBatches == BatchesInit /\ [][LoopIteration]_vars

----------------------------------------------------------------------------
(* The answer to a failed verify() under two configurations that differ in   *)
(* the password only.                                                        *)

VerifyFailInit ==
    /\ NoDispatch
    /\ \E u \in { AuthUser, <<"a","l">>, <<"x">>, <<"m","a","i","l","@","c","o","r","p",".","i","o">> },
          p, q \in { AuthPass, <<"s","3","c">>, <<"h","u","n","t","e","r","2">>, <<"z">> },
          e \in VerifyErrors :
          input = [kind |-> "verify-failure", user |-> u, pass |-> p, other |-> q,
                   error |-> e]
    /\ output = NoValue

AnswerVerifyFailure ==
    /\ input.kind = "verify-failure"
    /\ output = NoValue
    /\ output' =
          [kind |-> "answers",
           first |-> VerifyFailedBodyFor(
                        [SMTP_USER |-> input.user, SMTP_PASS |-> input.pass], input.error),
           second |-> VerifyFailedBodyFor(
                        [SMTP_USER |-> input.user, SMTP_PASS |-> input.other], input.error)]
    /\ UNCHANGED <<dispatchVars, input, page>>

SpecVerifyFail == VerifyFailInit /\ [][AnswerVerifyFailure]_vars

----------------------------------------------------------------------------
(* addEmailHashToLinks over documents of one or two anchors, applied once    *)
(* and again to its own result.                                              *)

Anchor(name, open, target, fragment, close) ==
    <<"<","a"," ">> \o name \o <<"=", open>> \o target \o fragment \o <<close>>
        \o <<">","x","<","/","a",">">>

LinkRecipients ==
    { <<"a","@","x",".","c","o","m">>, <<"f",".","l","+","p","@","x",".","i","o">> }

LinksInit ==
    /\ NoDispatch
    /\ \E n \in { <<"h","r","e","f">>, <<"H","R","E","F">>, <<"s","r","c">> },
          o \in Quotes,
          t \in { <<"h","t","t","p",":","/","/","a",".","i","o">>,
                  <<"h","t","t","p","s",":","/","/","a",".","i","o","/","p","?","q","=","1">>,
                  <<"H","T","T","P","S",":","/","/","A",".","I","O","/">>,
                  <<"h","t","t","p",":","/","/">>,
                  <<"h","t","t","p",":","/","/","a"," ","b">>,
                  <<"m","a","i","l","t","o",":","a","@","b">>,
                  <<"/","p","a","t","h">> },
          f \in { <<>>, <<"#">>, <<"#","t","o","p">>, <<"#","a"," ","b">> },
          c \in Quotes,
          b \in { <<>>,
                  Anchor(<<"h","r","e","f">>, "'", <<"h","t","t","p",":","/","/","b",".","i","o">>,
                  <<>>, "'"),
                  Anchor(<<"h","r","e","f">>, "\"", <<"h","t","t","p",":","/","/","b",".","i","o">>,
                  <<"#","x">>, "\"") },
          e \in LinkRecipients :
          input = [kind |-> "document", html |-> Anchor(n, o, t, f, c) \o b,
                   name |-> n, open |-> o, target |-> t, fragment |-> f, close |-> c,
                   rest |-> b, email |-> e]
    /\ output = NoValue

\* The instrumentation of the document, and of its own result.
Instrument ==
    /\ input.kind = "document"
    /\ output = NoValue
    /\ output' = [kind |-> "instrumented",
                  once |-> addEmailHashToLinks(input.html, input.email),
                  twice |-> addEmailHashToLinks(
                               addEmailHashToLinks(input.html, input.email), input.email)]
    /\ UNCHANGED <<dispatchVars, input, page>>

SpecLinks == LinksInit /\ [][Instrument]_vars

----------------------------------------------------------------------------
(* The content of the messages of one sendOneWithRetry call: one rendering   *)
(* per attempt, lines 494-496, over templates built around one address.      *)

RenderYear == 2026

TemplateFor(shape, u) ==
    CASE shape = "markdown" -> <<"R","e","a","d"," ","[","t","h","i","s","]","(">> \o u \o <<")"," ","t","o","d","a","y">>
      [] shape = "button"   -> <<"[","!","b","t","n","!"," ","G","o"," ","]","(">> \o u \o <<")">>
      [] shape = "bare"     -> <<"s","e","e"," ">> \o u \o <<" ","n","o","w">>
      [] shape = "bare-cta" -> <<"s","e","e"," ">> \o u \o <<"\n","l","e","a","r","n"," ","m","o","r","e","\n","B","y","e">>
      [] shape = "markdown-cta" -> <<"[","t","h","i","s","]","(">> \o u \o <<")","\n","S","e","e"," ","M","o","r","e">>
      [] shape = "document" -> <<"<","h","t","m","l",">","<","a"," ","h","r","e","f","=","\"">> \o u \o <<"\"",">","x","<","/","a",">","<","/","h","t","m","l",">">>
      [] shape = "anchor" -> <<"G","o"," ","<","a"," ","h","r","e","f","=","\"">> \o u \o <<"\"",">","h","e","r","e","<","/","a",">"," ","n","o","w">>
      [] shape = "cta-first" -> <<"L","e","a","r","n"," ","m","o","r","e","\n","s","e","e"," ">> \o u \o <<" ","n","o","w">>
      [] shape = "doctype" ->
            <<"\n"," ","<","!","D","O","C","T","Y","P","E"," ","h","t","m","l",">",
              "\n","<","h","t","m","l",">","<","b","o","d","y",">","\n","[","t","h",
              "i","s","]","(">> \o u
            \o <<")","\n","s","e","e"," ">> \o u \o <<" ","n","o","w","\n","L","e","a","r","n"," ","m","o","r","e","\n","<",
              "a"," ","H","R","E","F","=","\"">>
            \o u \o <<"\"",">","x","<","/","a",">","\n","<","/","b","o","d","y",">","<","/",
              "h","t","m","l",">"," ">>
      [] shape = "greeting" ->
            <<"H","i"," ","{","{"," ","n","a","m","e"," ","}","}",",","\n","w","e","l","c",
            "o","m","e"," ","{","{","R","E","C","I","P","I","E","N","T","}","}">>
      [] shape = "cta" ->
            <<"H","e","l","l","o","\n"," "," ","V","i","e","w"," "," "," ","M","o","r",
            "e"," ","\n","\n","B","y","e">>

RenderCases ==
    { [shape |-> sh, url |-> u] : sh \in {"markdown", "button", "bare", "bare-cta",
                   "markdown-cta", "document", "anchor", "cta-first",
                   "doctype"},
        u \in { <<"h","t","t","p",":","/","/","a",".","i","o","/","p","#","t","o","p">>,
                <<"h","t","t","p","s",":","/","/","a",".","i","o">>,
                <<"h","t","t","p","s",":","/","/","b",".","i","o","/","q","?","x","=",
                  "1">>,
                <<"h","t","t","p",":","/","/","[">>, <<"/","r","e","l">> } }
        \cup { [shape |-> "greeting", url |-> <<>>], [shape |-> "cta", url |-> <<>>] }

RenderInit ==
    /\ NoDispatch
    /\ \E c \in RenderCases, e \in LinkRecipients :
          input = [kind |-> "template", shape |-> c.shape, url |-> c.url,
                   template |-> TemplateFor(c.shape, c.url),
                   subject |-> <<"H","i">>,
                   sender |-> [name |-> <<"S">>, email |-> SenderAddress],
                   email |-> e, year |-> RenderYear, companyAddress |-> ""]
    /\ output = [kind |-> "renders", list |-> <<>>]

\* Lines 495-496, 527-528: the html and the text of a message; line 496 is
\* not reached when formatHtmlContent threw.
MessageContent(personalized, html, year) ==
    [year |-> year, html |-> html,
     text |-> IF html.threw THEN <<>> ELSE toPlainText(personalized)]

\* The content carries the number of renderings made before it.
Render_Counted(template, subject, sender, rcpt, year, companyAddress) ==
    LET personalized == personalizeContent(template, rcpt)
        html == formatHtmlContent(personalized, subject, rcpt, sender, year,
                                  companyAddress)
    IN  [year |-> year, html |-> html,
         text |-> IF html.threw THEN <<>>
                  ELSE toPlainText(personalized)
                          \o [k \in 1..Len(output.list) |-> "."]]

\* Lines 494-496: personalized, html and text of one attempt. year is the year
\* the clock showed.
Render(template, subject, sender, rcpt, year, companyAddress) ==
    MessageContent(personalizeContent(template, rcpt),
                   formatHtmlContent(personalizeContent(template, rcpt), subject,
                                     rcpt, sender, year, companyAddress),
                   year)

\* One iteration of the retry loop up to sendMail: at most MAX_RETRIES + 1, and
\* none after an exception of the renderer, which is not retried.
RenderAttempt ==
    /\ input.kind = "template"
    /\ Len(output.list) <= MAX_RETRIES
    /\ output.list # <<>> => ~output.list[Len(output.list)].html.threw
    /\ output' = [output EXCEPT !.list =
                     Append(@, Render(input.template, input.subject, input.sender,
                                      input.email, input.year, input.companyAddress))]
    /\ UNCHANGED <<dispatchVars, input, page>>

\* The year changes between two attempts.
YearTurns ==
    /\ input.kind = "template"
    /\ input.year = RenderYear
    /\ input' = [input EXCEPT !.year = @ + 1]
    /\ UNCHANGED <<dispatchVars, output, page>>

SpecRender == RenderInit /\ [][RenderAttempt \/ YearTurns]_vars

----------------------------------------------------------------------------
(* nameFromEmail over the addresses of at most MaxAddressLen characters of   *)
(* NameAlphabet, and over the addresses of NamedAddresses.                   *)

MaxAddressLen == 4

NameAlphabet == {"a", "B", "7", ".", "_", "+", "@", "!"}

NamedAddresses ==
    { <<"n","a","m","e","@","e","x","a","m","p","l","e",".","c","o","m">>,
      <<"f","i","r","s","t",".","l","a","s","t","+","p","r","o","m","o","@","x",".","c","o","m">>,
      <<"J","O","H","N","-","m","c","_","d","o","e","@","x",".","i","o">>,
      <<"+","p","r","o","m","o","@","x",".","c","o","m">>,
      <<"-","-",".","@","x",".","c","o","m">> }

NameInit ==
    /\ NoDispatch
    /\ \E e \in NamedAddresses \cup UNION {[1..n -> NameAlphabet] : n \in 0..MaxAddressLen} :
          input = [kind |-> "address", email |-> e]
    /\ output = NoValue

DeriveName ==
    /\ input.kind = "address"
    /\ output = NoValue
    /\ output' = [kind |-> "name", name |-> nameFromEmail(input.email)]
    /\ UNCHANGED <<dispatchVars, input, page>>

SpecName == NameInit /\ [][DeriveName]_vars

----------------------------------------------------------------------------
(* The list page, src/app/page.tsx: the component EmailManager.  Each      *)
(* action is one event handler, run against the state of the latest       *)
(* render; a setter pair of one handler is one commit.  The callback of    *)
(* handleBulkPaste is the exception: it runs addEmailsFromText of the      *)
(* render in which the paste happened, so it carries that render's         *)
(* emailList.  The subject and the content are taken as filled in.         *)

MaxTimers == 1

\* Line 26: /^\S+@\S+\.\S+$/.test(e)
isValidEmail(e) ==
    /\ \A k \in 1..Len(e) : e[k] \notin Whitespace
    /\ \E a \in 2..Len(e), d \in 4..Len(e) - 1 :
          e[a] = "@" /\ a + 1 < d /\ e[d] = "."

\* Line 31: .split(/[\s,;]+/): the pieces between the runs of separators.
RECURSIVE SplitSeparators(_)
SplitSeparators(text) ==
    LET seps == {k \in 1..Len(text) : text[k] \in Whitespace \cup {",", ";"}} IN
    IF seps = {} THEN <<text>>
    ELSE LET k == CHOOSE x \in seps : \A y \in seps : x <= y
             rest == {x \in k..Len(text) : x \notin seps}
             n == IF rest = {} THEN Len(text) + 1
                  ELSE CHOOSE x \in rest : \A y \in rest : x <= y
         IN <<SubSeq(text, 1, k - 1)>> \o SplitSeparators(SubSeq(text, n, Len(text)))

\* Lines 29-34: .map(e => e.trim().toLowerCase()).filter(Boolean)
parseEmails(text) ==
    SelectSeq([k \in DOMAIN SplitSeparators(text) |->
                  ToLowerCase(Trim(SplitSeparators(text)[k]))],
              LAMBDA e : e # <<>>)

\* addEmail without toLowerCase().
addEmail_KeepCase(emailList, newEmail) ==
    IF \/ Trim(newEmail) = <<>>
       \/ ~isValidEmail(Trim(newEmail))
       \/ \E k \in DOMAIN emailList : emailList[k] = Trim(newEmail)
    THEN emailList
    ELSE Append(emailList, Trim(newEmail))

\* Lines 36-58: the list addEmail leaves, for the list and the input it sees.
addEmail(emailList, newEmail) ==
    IF \/ ToLowerCase(Trim(newEmail)) = <<>>
       \/ ~isValidEmail(ToLowerCase(Trim(newEmail)))
       \/ \E k \in DOMAIN emailList : emailList[k] = ToLowerCase(Trim(newEmail))
    THEN emailList
    ELSE Append(emailList, ToLowerCase(Trim(newEmail)))

\* Lines 68-86: a Set keeps its members in the order of their first insertion.
\* With validate it is the loop of lines 73-84 over the parsed entries,
\* without it new Set(emailList) of line 68.
RECURSIVE AddEach(_, _, _)
AddEach(uniques, entries, validate) ==
    IF entries = <<>> THEN uniques
    ELSE AddEach(IF \/ validate /\ ~isValidEmail(Head(entries))
                    \/ \E k \in DOMAIN uniques : uniques[k] = Head(entries)
                 THEN uniques
                 ELSE Append(uniques, Head(entries)),
                 Tail(entries), validate)

\* Lines 61-96: the list addEmailsFromText leaves, for the list it sees.
addEmailsFromText(emailList, text) ==
    IF parseEmails(text) = <<>> THEN emailList
    ELSE AddEach(AddEach(<<>>, emailList, FALSE), parseEmails(text), TRUE)

\* What is pasted or typed into the textarea.
BulkInputs ==
    { <<"a","@","x",".","i","o",","," ","B","@","y",".","c","o",";","x","@","y","\n",
        "b","@","y",".","c","o">>,
      <<" ","b","@","y",".","c","o","\t">>,
      <<" ",",",";","\n">> }

ListInit ==
    /\ NoDispatch
    /\ input = NoValue
    /\ output = NoValue

\* Lines 36-58, from the button of line 237 or Enter in the input (196-200).
AddEmail ==
    \E newEmail \in { <<"a","@","x",".","i","o">>,
                      <<" ","A","@","X",".","i","o"," ">>,
                      <<"B","@","y",".","c","o">>,
                      <<"a"," ","b","@","x",".","i","o">>,
                      <<"a","@",".","i","o">>,
                      <<" ">> } :
       /\ page' = [page EXCEPT !.emailList = addEmail(page.emailList, newEmail),
                               !.emailCount = Len(addEmail(page.emailList, newEmail))]
       /\ output' = [kind |-> "addEmail", arg |-> newEmail]
       /\ UNCHANGED <<dispatchVars, input>>

\* Lines 61-96, from the button of line 258 under the textarea.
AddEmailsFromText ==
    \E text \in BulkInputs :
       /\ page' = [page EXCEPT
                     !.emailList = addEmailsFromText(page.emailList, text),
                     !.emailCount = Len(addEmailsFromText(page.emailList, text))]
       /\ output' = [kind |-> "addEmailsFromText", arg |-> text]
       /\ UNCHANGED <<dispatchVars, input>>

\* Lines 99-104: the paste schedules the callback and returns.
HandleBulkPaste ==
    \E text \in BulkInputs :
       /\ Len(page.timers) < MaxTimers
       /\ page' = [page EXCEPT
                     !.timers = Append(@, [text |-> text, emailList |-> page.emailList])]
       /\ output' = [kind |-> "handleBulkPaste", arg |-> text]
       /\ UNCHANGED <<dispatchVars, input>>

\* Lines 101-103: the callback runs, with the emailList of its own render.
PasteTimer ==
    /\ page.timers # <<>>
    /\ page' = [page EXCEPT
                  !.emailList = addEmailsFromText(Head(page.timers).emailList,
                                                  Head(page.timers).text),
                  !.emailCount = Len(addEmailsFromText(Head(page.timers).emailList,
                                                       Head(page.timers).text)),
                  !.timers = Tail(@)]
    /\ output' = [kind |-> "pasteTimer", arg |-> Head(page.timers).text]
    /\ UNCHANGED <<dispatchVars, input>>

\* Lines 106-110, for the entry whose button is pressed.
RemoveEmail ==
    \E k \in DOMAIN page.emailList :
       /\ page' = [page EXCEPT
                     !.emailList = SelectSeq(page.emailList,
                                             LAMBDA email : email # page.emailList[k]),
                     !.emailCount = Len(SelectSeq(page.emailList,
                                             LAMBDA email : email # page.emailList[k]))]
       /\ output' = [kind |-> "removeEmail", arg |-> page.emailList[k]]
       /\ UNCHANGED <<dispatchVars, input>>

\* Lines 112-115, from the button of line 276, shown while the list has entries.
ClearAllEmails ==
    /\ page.emailList # <<>>
    /\ page' = [page EXCEPT !.emailList = <<>>, !.emailCount = 0]
    /\ output' = [kind |-> "clearAllEmails", arg |-> <<>>]
    /\ UNCHANGED <<dispatchVars, input>>

\* Lines 117-163: sendEmails up to its await; the button of line 461 is
\* disabled while isLoading or with an empty list.
SendEmails ==
    /\ ~page.isLoading
    /\ page.emailList # <<>>
    /\ page' = [page EXCEPT !.isLoading = TRUE, !.posted = page.emailList]
    /\ output' = [kind |-> "sendEmails", arg |-> <<>>]
    /\ UNCHANGED <<dispatchVars, input>>

\* Lines 165-183, 191-193: the response is ok; clearAllEmails(), then finally.
FetchOk ==
    /\ page.isLoading
    /\ page' = [page EXCEPT !.emailList = <<>>, !.emailCount = 0,
                            !.isLoading = FALSE, !.posted = <<>>]
    /\ output' = [kind |-> "fetchOk", arg |-> <<>>]
    /\ UNCHANGED <<dispatchVars, input>>

\* Lines 167-169, 184-193: the response is not ok or fetch rejects; catch,
\* then finally.
FetchFails ==
    /\ page.isLoading
    /\ page' = [page EXCEPT !.isLoading = FALSE, !.posted = <<>>]
    /\ output' = [kind |-> "fetchFails", arg |-> <<>>]
    /\ UNCHANGED <<dispatchVars, input>>

SpecList ==
    ListInit /\ [][AddEmail \/ AddEmailsFromText \/ HandleBulkPaste \/ PasteTimer
                   \/ RemoveEmail \/ ClearAllEmails \/ SendEmails \/ FetchOk
                   \/ FetchFails]_vars

----------------------------------------------------------------------------
(* Properties *)

Range(f) == {f[k] : k \in DOMAIN f}

Completed200 == pc = "done" /\ response.status = 200

InProgress == {w \in DOMAIN workers : workers[w].pc \in {"sending", "backoff"}}

BatchOf(x) == (x - 1) \div BATCH_SIZE

Blank(str) == \A k \in 1..Len(str) : str[k] \in Whitespace

InvalidRequest ==
    \/ Len(request.emails) = 0
    \/ Blank(request.subject)
    \/ Blank(request.htmlContent)
    \/ request.sender.name = <<>>
    \/ request.sender.email = <<>>

\* C1: a dispatch that passed validation and pre-flight returns the summary,
\* in which total is the number of entries of the recipient list, success the
\* number of recipients whose last send attempt succeeded, failed the number
\* of all other recipients, so that success + failed = total.
C1_SummaryCounts ==
    (pc = "done" /\ verified = "ok") =>
        /\ response.status = 200
        /\ LET sm == response.body.summary
               ok == {x \in 1..Len(emails) : finalAttempt[x] = "ok"}
           IN  /\ sm.total = Len(request.emails)
               /\ sm.success = Cardinality(ok)
               /\ sm.failed = Len(request.emails) - Cardinality(ok)
               /\ sm.success + sm.failed = sm.total

C1_Witness ==
    /\ Completed200
    /\ Len(emails) = MaxRecipients
    /\ response.body.summary.success >= 1
    /\ response.body.summary.failed >= 1
    /\ sendCalls > Len(emails)

\* C2: at return, results holds exactly one outcome per entry of the
\* recipient list, and no step ever changes or removes an outcome already in
\* results: results only grows at its end, by one outcome at a time.
C2_OneOutcomePerRecipient ==
    /\ [](Completed200 =>
            /\ Len(results) = Len(emails)
            /\ Len(order) = Len(emails)
            /\ Range(order) = 1..Len(emails)
            /\ \A k \in 1..Len(results) : results[k].email = emails[order[k]]
            /\ response.body.results = results)
    /\ [][\/ results' = results
          \/ /\ Len(results') = Len(results) + 1
             /\ SubSeq(results', 1, Len(results)) = results]_vars

C2_Witness ==
    /\ Completed200
    /\ Len(results) = MaxRecipients
    /\ order[1] = 2
    /\ \E k \in 1..Len(results) : results[k].status = "failed"

\* C3: every entry of a batch is taken from the queue by exactly one worker:
\* no entry is taken twice, no two workers hold the same entry, none is left
\* when the batch ends, and every sendMail call for an entry is made by the
\* worker that took it (in the step that takes it, or as that worker's retry).
C3_ClaimedByOneWorker ==
    /\ [](/\ \A x \in DOMAIN claims : claims[x] <= 1
          /\ \A w1, w2 \in DOMAIN workers :
                (w1 # w2 /\ workers[w1].idx # 0) => workers[w1].idx # workers[w2].idx
          /\ \A w \in DOMAIN workers :
                workers[w].idx # 0 =>
                    /\ claims[workers[w].idx] = 1
                    /\ workers[w].rcpt = emails[workers[w].idx]
          /\ ((pc = "batch" /\ AllWorkersDone) \/ pc = "pause" \/ Completed200) =>
                /\ queue = <<>>
                /\ \A x \in 1..Min(i + BATCH_SIZE, Len(emails)) : claims[x] = 1)
    /\ [][LET starts == {w \in DOMAIN workers' :
                            /\ workers'[w].pc = "sending"
                            /\ (w \notin DOMAIN workers \/ workers[w] # workers'[w])}
          IN  /\ sendCalls' - sendCalls = Cardinality(starts)
              /\ \A w \in starts :
                    \/ claims'[workers'[w].idx] = claims[workers'[w].idx] + 1
                    \/ /\ w \in DOMAIN workers
                       /\ workers[w].pc = "backoff"
                       /\ workers[w].idx = workers'[w].idx]_vars

C3_Witness ==
    /\ pc = "batch"
    /\ AllWorkersDone
    /\ Len(BatchAt(i)) > CONCURRENCY
    /\ sendCalls > Len(results)
    /\ order[Len(order)] # i + Len(BatchAt(i))

\* C4: at most CONCURRENCY recipients are in progress (a send in flight or a
\* backoff wait pending) at any moment, and a batch of b recipients runs
\* exactly min(CONCURRENCY, b) workers.
C4_BoundedConcurrency ==
    /\ Cardinality(InProgress) <= CONCURRENCY
    /\ Len(workers) <= CONCURRENCY
    /\ pc = "batch" => Len(workers) = Min(CONCURRENCY, Len(BatchAt(i)))

C4_Witness ==
    /\ pc = "batch"
    /\ Len(BatchAt(i)) > CONCURRENCY
    /\ Cardinality(InProgress) = CONCURRENCY
    /\ \E w \in InProgress : workers[w].pc = "backoff"
    /\ queue # <<>>

\* C5: while a worker holds a recipient of one batch (a send attempt for it
\* has started or is about to), every recipient of every earlier batch has
\* its final outcome in results and no send of it is in flight.
C5_BatchesDoNotOverlap ==
    \A w \in DOMAIN workers :
        workers[w].idx # 0 =>
            \A x \in 1..Len(emails) :
                BatchOf(x) < BatchOf(workers[w].idx) =>
                    /\ x \in Range(order)
                    /\ finalAttempt[x] # "pending"
                    /\ \A v \in DOMAIN workers : workers[v].idx # x

C5_Witness ==
    \E w \in DOMAIN workers :
        /\ workers[w].pc = "sending"
        /\ workers[w].sends > 1
        /\ BatchOf(workers[w].idx) = 1
        /\ sendCalls > Len(emails) + 2

\* C6: verify() is called exactly once in every dispatch (a request that passed
\* validation and the configuration test), never more than once, and a
\* sendMail call is made only after verify() has returned successfully.
C6_VerifyOnceBeforeSends ==
    /\ verifyCalls <= 1
    /\ (pc # "received" /\ ~InvalidRequest /\ ~ConfigMissing) => verifyCalls = 1
    /\ (sendCalls > 0 \/ workers # <<>>) => (verifyCalls = 1 /\ verified = "ok")

C6_Witness ==
    /\ Completed200
    /\ verifyCalls = 1
    /\ sendCalls > Len(emails)

\* C7: when verify() fails the handler has answered 500 with success false in
\* that same step; no sendMail call is made, no outcome is recorded or
\* counted, and the response holds no summary.
C7_VerifyFailureAborts ==
    verified = "failed" =>
        /\ pc = "done"
        /\ response.status = 500
        /\ response.body.success = FALSE
        /\ "summary" \notin DOMAIN response.body
        /\ "results" \notin DOMAIN response.body
        /\ sendCalls = 0
        /\ workers = <<>>
        /\ results = <<>>
        /\ successCount = 0 /\ failCount = 0

C7_Witness ==
    /\ verified = "failed"
    /\ pc = "done"
    /\ Len(emails) = MaxRecipients

\* C8: a request with no recipient, a blank subject, a blank template or a
\* missing sender name or address is answered 400 with a message; verify() is
\* not called and no sendMail call is made.
C8_ValidationRejects ==
    (InvalidRequest /\ pc # "received") =>
        /\ pc = "done"
        /\ response.status = 400
        /\ response.body.success = FALSE
        /\ response.body.message # ""
        /\ verifyCalls = 0
        /\ verified = "none"
        /\ sendCalls = 0
        /\ results = <<>>

C8_Witness ==
    /\ pc = "done"
    /\ response.status = 400
    /\ Len(emails) = MaxRecipients
    /\ request.subject = <<" ">>
    /\ ~ConfigMissing

\* C9: one call of sendOneWithRetry makes at most MAX_RETRIES + 1 sendMail
\* calls, so a dispatch of n recipients makes at most (MAX_RETRIES + 1) * n;
\* when the last of them fails too, the call returns a Failure, which is in
\* results at return.
C9_RetryCeiling ==
    /\ \A w \in DOMAIN workers :
          /\ workers[w].sends <= MAX_RETRIES + 1
          /\ workers[w].pc = "backoff" => workers[w].sends <= MAX_RETRIES
          /\ workers[w].sends = MAX_RETRIES + 1 =>
                /\ workers[w].pc \in {"sending", "returned"}
                /\ (workers[w].pc = "returned" /\ workers[w].last = "err") =>
                       workers[w].result.status = "failed"
    /\ sendCalls <= (MAX_RETRIES + 1) * Len(emails)
    /\ Completed200 =>
          \A k \in 1..Len(results) :
              finalAttempt[order[k]] = "err" => results[k].status = "failed"

C9_Witness ==
    /\ Completed200
    /\ Len(emails) = MaxRecipients
    /\ sendCalls = (MAX_RETRIES + 1) * Len(emails)
    /\ failCount = Len(emails)

\* C10: a failure that isTransientSmtpError classifies as permanent ends the
\* call at once: the worker is returned a Failure carrying the error's
\* message and response code, no backoff wait was set for it (one wait per
\* earlier, transient failure only), and that Failure is what the worker
\* appends to results.
C10_PermanentNotRetried ==
    /\ [](\A w \in DOMAIN workers :
             (workers[w].last = "err" /\ ~Transient[workers[w].lastErr]) =>
                 /\ workers[w].pc = "returned"
                 /\ workers[w].result.status = "failed"
                 /\ workers[w].result.error = workers[w].lastErr.message
                 /\ workers[w].result.responseCode = workers[w].lastErr.responseCode
                 /\ Len(workers[w].waits) = workers[w].attempt
                 /\ workers[w].sends <= workers[w].attempt + 1)
    /\ [][\A w \in DOMAIN workers :
             (workers[w].pc = "returned" /\ workers'[w] # workers[w]) =>
                 /\ results' = Append(results, workers[w].result)
                 /\ workers[w].result.status = "failed" => failCount' = failCount + 1]_vars

C10_Witness ==
    \E w \in DOMAIN workers :
        /\ workers[w].pc = "returned"
        /\ workers[w].lastErr = E550
        /\ workers[w].sends = 1
        /\ workers[w].waits = <<>>

\* The markers isTransientSmtpError looks for (lines 221-230).
TestedMarkers ==
    { <<"4",".","7",".","0">>,
      <<"4",".","7",".","1">>,
      <<"t","r","y"," ","a","g","a","i","n"," ","l","a","t","e","r">>,
      <<"t","e","m","p","o","r","a","r","i","l","y"," ","u","n","a","v","a","i","l","a","b","l","e">>,
      <<"r","a","t","e"," ","l","i","m","i","t">>,
      <<"q","u","o","t","a"," ","e","x","c","e","e","d","e","d">>,
      <<"g","r","e","y","l","i","s","t">>,
      <<"t","i","m","e","o","u","t">>,
      <<"t","e","m","p","o","r","a","r","y">> }

\* The markers the claim C12 names.
NamedMarkers ==
    { <<"r","a","t","e"," ","l","i","m","i","t">>,
      <<"q","u","o","t","a">>,
      <<"g","r","e","y","l","i","s","t">>,
      <<"t","i","m","e","o","u","t">>,
      <<"t","e","m","p","o","r","a","r","i","l","y"," ","u","n","a","v","a","i","l","a","b","l","e">>,
      <<"t","r","y"," ","a","g","a","i","n"," ","l","a","t","e","r">> }

HasMarker(text, markers) == \E m \in markers : Includes(ToLowerCase(text), m)

Classified == output.kind = "class"

\* C11, as stated: a failure with a response code in 500..599 is classified
\* permanent, whatever its response text.
C11_Original ==
    (Classified /\ input.code \in 500..599) => ~output.transient

\* C11, amended: a failure with a response code in 500..599 is classified
\* permanent when its response text holds none of the tested markers, and
\* transient when it holds one.
C11_PermanentWithoutMarker ==
    (Classified /\ input.code \in 500..599) =>
        (output.transient <=> HasMarker(input.response, TestedMarkers))

C11_Witness ==
    /\ Classified
    /\ input.code = 550
    /\ input.response = <<"5","5","0"," ","N","o"," ","s","u","c","h"," ","u","s","e","r">>
    /\ ~output.transient

\* C12, as stated: transient exactly when the code is in 400..499 or the text
\* holds one of the named markers.
C12_Original ==
    Classified =>
        (output.transient <=>
            (input.code \in 400..499 \/ HasMarker(input.response, NamedMarkers)))

\* C12, amended: transient exactly when the code is in 400..499 or the text
\* holds, in any letter case, one of the tested markers; so code 450 is
\* transient with any text or none, and no code with no text is permanent.
C12_TransientExactly ==
    Classified =>
        /\ output.transient <=>
              (input.code \in 400..499 \/ HasMarker(input.response, TestedMarkers))
        /\ input.code = 450 => output.transient
        /\ (input.code = 0 /\ input.response = <<>>) => ~output.transient

C12_Witness ==
    /\ Classified
    /\ input.code = 0
    /\ input.response = <<"R","A","T","E"," ","L","I","M","I","T"," ","h","i","t">>
    /\ output.transient

\* C13: a call whose sendMail resolves after k transient failures returns a
\* Success carrying the message identifier after exactly k + 1 sendMail calls
\* and k waits (k <= MAX_RETRIES); every backoff wait is followed by a new
\* sendMail call for the same recipient; the worker appends that Success and
\* counts it as a success only.
C13_TransientAbsorbed ==
    /\ [](\A w \in DOMAIN workers :
             (workers[w].pc = "returned" /\ workers[w].last = "ok") =>
                 /\ workers[w].result.status = "success"
                 /\ workers[w].result.responseId = MessageIdOf(emails[workers[w].idx])
                 /\ workers[w].attempt <= MAX_RETRIES
                 /\ workers[w].sends = workers[w].attempt + 1
                 /\ Len(workers[w].waits) = workers[w].attempt)
    /\ [](Completed200 =>
             \A x \in 1..Len(emails) :
                 finalAttempt[x] = "ok" =>
                     /\ Cardinality({k \in 1..Len(order) : order[k] = x}) = 1
                     /\ \A k \in 1..Len(order) :
                           order[k] = x => results[k].status = "success")
    /\ [][\A w \in DOMAIN workers :
             /\ (workers[w].pc = "backoff" /\ workers'[w] # workers[w]) =>
                   /\ workers'[w].pc = "sending"
                   /\ workers'[w].idx = workers[w].idx
                   /\ workers'[w].sends = workers[w].sends + 1
             /\ (workers[w].pc = "returned" /\ workers[w].last = "ok"
                   /\ workers'[w] # workers[w]) =>
                   /\ results' = Append(results, workers[w].result)
                   /\ successCount' = successCount + 1
                   /\ failCount' = failCount]_vars

C13_Witness ==
    \E w \in DOMAIN workers :
        /\ workers[w].pc = "returned"
        /\ workers[w].last = "ok"
        /\ workers[w].sends = MAX_RETRIES + 1
        /\ Len(workers[w].waits) = MAX_RETRIES

\* C14, as stated: when every attempt of a call failed transiently, up to the
\* last one allowed, the Failure returned has the error 'Exceeded retry
\* attempts'.
C14_ExceededMessage ==
    \A w \in DOMAIN workers :
        (/\ workers[w].pc = "returned"
         /\ workers[w].last = "err"
         /\ Transient[workers[w].lastErr]
         /\ workers[w].sends = MAX_RETRIES + 1) =>
            workers[w].result.error = "Exceeded retry attempts"

ExpectedWaits == <<2000, 4000, 8000>>

\* C15: the waits of one call are 2000, 4000, 8000 ms in that order, one
\* between two consecutive sendMail calls, none after the last call.
C15_BackoffSchedule ==
    \A w \in DOMAIN workers :
        LET wk == workers[w] IN
        /\ Len(wk.waits) <= Len(ExpectedWaits)
        /\ wk.waits = SubSeq(ExpectedWaits, 1, Len(wk.waits))
        /\ \A k \in 1..Len(wk.waits) : wk.waits[k] = 2000 * Pow2(k - 1)
        /\ wk.pc = "backoff" => Len(wk.waits) = wk.sends
        /\ wk.pc = "sending" => Len(wk.waits) = wk.sends - 1
        /\ (wk.pc = "returned" /\ wk.sends > 0) => Len(wk.waits) = wk.sends - 1
        /\ wk.sends = 0 => wk.waits = <<>>

C15_Witness ==
    \E w \in DOMAIN workers :
        /\ workers[w].pc = "returned"
        /\ workers[w].waits = <<2000, 4000, 8000>>
        /\ workers[w].sends = 4

\* C16, as stated: in a dispatch that passed pre-flight every recipient gets
\* at least one sendMail call.
C16_EveryRecipientAttempted ==
    Completed200 => \A x \in 1..Len(emails) : finalAttempt[x] # "none"

\* C17: once verify() has succeeded the handler goes on until it answers, and
\* its answer is the 200 summary with the counts and one result per
\* recipient: no worker stops on an exception and no step is left without a
\* successor before the answer.
C17_AlwaysSummary ==
    verified = "ok" =>
        /\ pc \in {"batch", "pause", "done"}
        /\ \A w \in DOMAIN workers :
              workers[w].pc \in {"sending", "backoff", "returned", "done"}
        /\ pc # "done" => ENABLED Next
        /\ pc = "done" =>
              /\ response.status = 200
              /\ response.body.success = TRUE
              /\ {"summary", "results"} \subseteq DOMAIN response.body
              /\ Len(response.body.results) = Len(emails)

C17_Witness ==
    /\ Completed200
    /\ Len(emails) = MaxRecipients
    /\ sendCalls = 0
    /\ response.body.summary.failed = Len(emails)
    /\ response.body.summary.success = 0

Ceil(n, d) == (n + d - 1) \div d

LoopDone == output.kind = "loop" /\ output.i >= Len(input.emails)

C20_BatchOrderInResults ==
    /\ Len(order) = Len(results)
    /\ \A k \in 1..Len(results) : results[k].email = emails[order[k]]
    /\ \A a, b \in 1..Len(order) :
          a < b => BatchOf(order[a]) <= BatchOf(order[b])

\* Two recipients of the first batch recorded against input order, followed by
\* the second batch.
C20_Witness ==
    /\ Completed200
    /\ Len(order) > BATCH_SIZE
    /\ order[1] = 2
    /\ order[2] = 1
    /\ BatchOf(order[Len(order)]) = 1

\* C21: every dispatch ends with an answer; it ends either with no sendMail
\* call made (400 or 500) or with the 200 summary after the last batch has
\* been joined; no call goes beyond MAX_RETRIES + 1 sendMail calls.
C21_Terminates ==
    /\ <>(pc = "done")
    /\ [](\A w \in DOMAIN workers : workers[w].sends <= MAX_RETRIES + 1)
    /\ [](pc = "done" =>
             \/ /\ response.status \in {400, 500}
                /\ sendCalls = 0
                /\ results = <<>>
             \/ /\ Completed200
                /\ Len(results) = Len(emails)
                /\ i + BATCH_SIZE >= Len(emails)
                /\ queue = <<>>
                /\ AllWorkersDone)

C21_Witness ==
    /\ Completed200
    /\ pauses >= 1
    /\ sendCalls >= MAX_RETRIES + 1 + Len(emails) - 1
    /\ failCount >= 1
    /\ successCount >= 1

\* C22, as stated: the answer of a completed dispatch has a warnings sequence,
\* not empty when the sender address of the request is not the authenticated
\* account.
C22_WarningsPresent ==
    Completed200 =>
        /\ "warnings" \in DOMAIN response.body
        /\ request.sender.email # env.SMTP_USER => response.body.warnings # <<>>

\* C23: every message handed to sendMail, first attempt or retry, has the From
\* header "<display name>" <authenticated address>, the envelope sender equal
\* to the authenticated address, and To and envelope recipient equal to the
\* recipient being processed; the sender address of the request is in neither
\* the From header nor the envelope sender.
C23_AuthenticatedFrom ==
    \A w \in DOMAIN workers :
        workers[w].sends > 0 =>
            LET m == workers[w].mail IN
            /\ m.from = <<"\"">> \o request.sender.name \o <<"\"", " ", "<">>
                          \o env.SMTP_USER \o <<">">>
            /\ m.envelope.from = env.SMTP_USER
            /\ m.to = emails[workers[w].idx]
            /\ m.envelope.to = emails[workers[w].idx]
            /\ ~Includes(m.from, request.sender.email)
            /\ m.envelope.from # request.sender.email

C23_Witness ==
    \E w \in DOMAIN workers :
        /\ workers[w].pc = "sending"
        /\ workers[w].sends = 3
        /\ workers[w].idx = 2
        /\ workers[w].mail.to = "b@x.com"
        /\ request.sender.email # env.SMTP_USER

\* What precedes the first '@' or '+' of an address.
LocalPart(e) ==
    LET cuts == {k \in 1..Len(e) : e[k] \in {"@", "+"}} IN
    IF cuts = {} THEN e
    ELSE SubSeq(e, 1, (CHOOSE k \in cuts : \A m \in cuts : k <= m) - 1)

\* The maximal runs of letters and digits of a string, left to right.
RECURSIVE AlnumRuns(_)
AlnumRuns(str) ==
    IF str = <<>> THEN <<>>
    ELSE IF Head(str) \notin Alphanumeric THEN AlnumRuns(Tail(str))
    ELSE LET stops == {k \in 1..Len(str) : str[k] \notin Alphanumeric}
             stop == IF stops = {} THEN Len(str) + 1
                     ELSE CHOOSE k \in stops : \A m \in stops : k <= m
         IN  <<SubSeq(str, 1, stop - 1)>> \o AlnumRuns(SubSeq(str, stop, Len(str)))

TitleCase(run) ==
    [k \in 1..Len(run) |-> IF k = 1 THEN UpperChar(run[1]) ELSE LowerChar(run[k])]

Named == output.kind = "name"

\* C28: when the local part, cut at the first '+', holds a letter or a digit,
\* the display name is its runs of letters and digits, each with its first
\* letter upper case and the rest lower case, joined by single spaces;
\* name@example.com gives Name and first.last+promo@x.com gives First Last.
C28_DisplayName ==
    Named =>
        LET runs == AlnumRuns(LocalPart(input.email)) IN
        /\ runs # <<>> =>
              output.name = JoinSpace([k \in 1..Len(runs) |-> TitleCase(runs[k])])
        /\ input.email = <<"n","a","m","e","@","e","x","a","m","p","l","e",".","c","o","m">>
              => output.name = <<"N","a","m","e">>
        /\ input.email = <<"f","i","r","s","t",".","l","a","s","t","+","p","r","o","m","o",
                           "@","x",".","c","o","m">>
              => output.name = <<"F","i","r","s","t"," ","L","a","s","t">>

C28_Witness ==
    /\ Named
    /\ input.email = <<"J","O","H","N","-","m","c","_","d","o","e","@","x",".","i","o">>
    /\ output.name = <<"J","o","h","n"," ","M","c"," ","D","o","e">>

\* C29, as stated: the display name is never empty, and it is 'there' when
\* the local part, cut at the first '+', holds no letter and no digit.
C29_DefaultsToThere ==
    Named =>
        /\ output.name # <<>>
        /\ AlnumRuns(LocalPart(input.email)) = <<>> => output.name = There

\* C30: the answer to a failed verify() names the host, the port and the
\* account, the account by its first three characters at most followed by
\* '...'; it has no field for the password, and it is the same answer whatever
\* the password is.
C30_NoSecretInDiagnostic ==
    output.kind = "answers" =>
        /\ DOMAIN output.first = {"success", "message", "error", "details"}
        /\ DOMAIN output.first.details = {"host", "port", "secure", "user", "authMethod"}
        /\ output.first.details.host = "mail.privateemail.com"
        /\ output.first.details.port = 465
        /\ output.first.details.user =
              SubSeq(input.user, 1, Min(3, Len(input.user))) \o <<".", ".", ".">>
        /\ Len(output.first.details.user) <= 6
        /\ output.first.error = input.error
        /\ output.first = output.second

C30_Witness ==
    /\ output.kind = "answers"
    /\ input.user = AuthUser
    /\ input.pass = <<"h","u","n","t","e","r","2">>
    /\ input.other = <<"z">>
    /\ output.first.details.user = <<"b","o","b",".",".",".">>

Instrumented == output.kind = "instrumented"

\* The anchor of the document is an href in matching quotes to an absolute
\* http(s) address with something after the scheme and no whitespace.
HttpHref ==
    /\ ToLowerCase(input.name) = <<"h","r","e","f">>
    /\ input.open = input.close
    /\ IsHttpUrl(input.target)
    /\ ToLowerCase(input.target) \notin
          { <<"h","t","t","p",":","/","/">>, <<"h","t","t","p","s",":","/","/">> }
    /\ \A k \in 1..Len(input.target) : input.target[k] \notin Whitespace

\* C25: instrumenting the result of the instrumentation changes nothing; an
\* anchor that has a fragment is returned as it was; an http(s) href without a
\* fragment gets '#' and the recipient's address appended, once; any other
\* anchor is returned as it was.
C25_InstrumentationIdempotent ==
    Instrumented =>
        /\ output.twice = output.once
        /\ (input.rest = <<>> /\ input.fragment # <<>>) => output.once = input.html
        /\ (input.rest = <<>> /\ input.fragment = <<>> /\ HttpHref) =>
              output.once = Anchor(<<"h","r","e","f">>, input.open,
                                   input.target \o <<"#">> \o input.email, <<>>,
                                   input.close)
        /\ (input.rest = <<>> /\ ~HttpHref) => output.once = input.html
        /\ Len(output.once) <= Len(input.html) + 2 * (Len(input.email) + 1)

C25_Witness ==
    /\ Instrumented
    /\ input.target = <<"h","t","t","p","s",":","/","/","a",".","i","o","/","p","?","q","=","1">>
    /\ input.fragment = <<>>
    /\ input.open = "'" /\ input.close = "'"
    /\ input.name = <<"H","R","E","F">>
    /\ input.rest # <<>>
    /\ input.email = <<"a","@","x",".","c","o","m">>
    /\ Includes(output.once, <<"q","=","1","#","a","@","x",".","c","o","m","'">>)
    /\ output.twice = output.once
    /\ output.once # input.html

Renders == IF output.kind = "renders" THEN output.list ELSE <<>>

\* The values of the href="..." attributes of a text.
Hrefs(html) ==
    { SubSeq(html, p + 6, p + 5 + RunLength(html, p + 6, {"\""})) :
        p \in {q \in 1..Len(html) : q + 5 <= Len(html)
                                     /\ SubSeq(html, q, q + 5) = <<"h","r","e","f","=","\"">>} }

C26_FragmentKept ==
    \A a \in 1..Len(Renders) :
        (/\ ~Renders[a].html.threw
         /\ IsHttpUrl(input.url)
         /\ ParseUrl(input.url).ok
         /\ UrlHash(ParseUrl(input.url)) # <<>>) =>
            \A h \in Hrefs(Renders[a].html.html) :
                StartsWith(h, ParseUrl(input.url).base) =>
                    h = UrlToString(ParseUrl(input.url))

\* C27, as stated: no rendering raises, and a malformed address of the
\* template is in the rendering as an anchor to the address as written.
C27_NeverRaises ==
    \A a \in 1..Len(Renders) :
        /\ ~Renders[a].html.threw
        /\ (/\ input.shape \notin {"document", "doctype"}
            /\ IsHttpUrl(input.url)
            /\ ~ParseUrl(input.url).ok) =>
              \E h \in Hrefs(Renders[a].html.html) : h = input.url

\* C34: a request that passes validation while the account name or the
\* password of the transport is not configured is answered 500, with no
\* verify() call and no sendMail call; a request that fails validation is
\* answered 400 under every configuration.
C34_ConfigurationGate ==
    pc # "received" =>
        /\ (~InvalidRequest /\ (env.SMTP_USER = <<>> \/ env.SMTP_PASS = <<>>)) =>
              /\ pc = "done"
              /\ response.status = 500
              /\ response.body.success = FALSE
              /\ verifyCalls = 0
              /\ verified = "none"
              /\ sendCalls = 0
              /\ workers = <<>>
              /\ results = <<>>
        /\ InvalidRequest => response.status = 400

C34_Witness ==
    /\ pc = "done"
    /\ response.status = 500
    /\ ~InvalidRequest
    /\ env.SMTP_USER # <<>>
    /\ env.SMTP_PASS = <<>>
    /\ Len(emails) = MaxRecipients
    /\ verifyCalls = 0

\* C35: in every state of a dispatch successCount + failCount is the number of
\* entries of results, successCount the number of entries with status
\* "success" and failCount the number with status "failed"; there are never
\* more entries than recipients, and no step decreases any of the three.
C35_CountersMatchResults ==
    /\ [](/\ successCount + failCount = Len(results)
          /\ successCount =
                Cardinality({k \in 1..Len(results) : results[k].status = "success"})
          /\ failCount =
                Cardinality({k \in 1..Len(results) : results[k].status = "failed"})
          /\ Len(results) <= Len(request.emails))
    /\ [][/\ successCount' >= successCount
          /\ failCount' >= failCount
          /\ Len(results') >= Len(results)]_vars

\* Between two outcomes of a dispatch, one of each kind being recorded.
C35_Witness ==
    /\ pc # "done"
    /\ successCount > 0
    /\ failCount > 0
    /\ Len(results) < Len(request.emails)
    /\ InProgress # {}

\* The number of anchor elements opened in a text.
AnchorCount(html) ==
    Cardinality({p \in 1..Len(html) : HasAt(html, p, <<"<","a"," ">>)})

\* C32, as stated: a markdown link of the template, and an anchor the
\* template already has, is one anchor of the rendering, and no href of the
\* rendering holds an anchor.
C32_OneAnchorPerLink ==
    \A a \in 1..Len(Renders) :
        (/\ ~Renders[a].html.threw
         /\ Renders[a].html.kind = "wrapped"
         /\ input.shape \in {"markdown", "anchor"}) =>
            /\ AnchorCount(Renders[a].html.html) = 1
            /\ \A h \in Hrefs(Renders[a].html.html) : ~Includes(h, <<"<","a"," ">>)

\* The rendering has a call-to-action button.
HasButton(html) == Includes(html, <<"c","l","a","s","s","=","\"","b","u","t","t","o","n","\"">>)

\* C33, as stated: a call-to-action line that follows a url of the template is
\* a button to that url; a call-to-action line of a template without a url, or
\* with a url only after the line, is in the rendering as the text it was, and
\* the rendering has no button.
C33_ButtonTargetsEarlierUrl ==
    \A a \in 1..Len(Renders) :
        ~Renders[a].html.threw =>
            /\ (input.shape = "bare-cta" /\ ParseUrl(input.url).ok) =>
                  /\ Includes(Renders[a].html.html,
                              <<"c","l","a","s","s","=","\"","b","u","t","t","o","n",
                                "\"",">","L","e","a","r","n"," ","M","o","r","e","<",
                                "/","a",">">>)
                  /\ \E h \in Hrefs(Renders[a].html.html) :
                        StartsWith(h, ParseUrl(input.url).base)
            /\ input.shape = "cta" =>
                  /\ ~HasButton(Renders[a].html.html)
                  /\ Includes(Renders[a].html.html, <<">","V","i","e","w"," "," "," ","M","o","r","e","<",
                                "/","p",">">>)
            /\ input.shape = "cta-first" =>
                  /\ ~HasButton(Renders[a].html.html)
                  /\ Includes(Renders[a].html.html, <<">","L","e","a","r","n"," ","m","o","r","e","<","/",
                                "p",">">>)

\* A text with every occurrence of mark taken out.
RECURSIVE Without(_, _, _)
Without(s, p, mark) ==
    LET hits == {q \in p..Len(s) : q + Len(mark) - 1 <= Len(s)
                                  /\ SubSeq(s, q, q + Len(mark) - 1) = mark}
    IN  IF hits = {} THEN SubSeq(s, p, Len(s))
        ELSE LET q == CHOOSE x \in hits : \A y \in hits : x <= y
             IN  SubSeq(s, p, q - 1) \o Without(s, q + Len(mark), mark)

\* The rendering of a template that is a full document.
DocumentRenders ==
    {a \in 1..Len(Renders) : input.shape \in {"document", "doctype"}}

\* The fragment added to the links of the rendering.
RecipientFragment == <<"#">> \o input.email

\* An http(s) href without a fragment in the template has the recipient's
\* address as its fragment in the rendering; the other occurrences of the
\* address and the relative href are as they were.
DocumentLinksInstrumented(html) ==
    /\ (IsHttpUrl(input.url) /\ ~Includes(input.url, <<"#">>)) =>
          /\ Includes(html, <<"=","\"">> \o input.url \o RecipientFragment \o <<"\"">>)
          /\ Len(html) = Len(Trim(input.template)) + Len(RecipientFragment)
    /\ (~IsHttpUrl(input.url) \/ Includes(input.url, <<"#">>)) =>
          html = Trim(input.template)

SameButHrefCase(a, b) ==
    /\ Len(a) = Len(b)
    /\ \A k \in 1..Len(a) :
          \/ a[k] = b[k]
          \/ /\ a[k] = LowerChar(b[k])
             /\ \E p \in 1..k : k - p <= 3 /\ HasAt(b, p, <<"h","r","e","f","=">>)

C36_ListInvariant ==
    /\ \A k, m \in DOMAIN page.emailList :
          page.emailList[k] = page.emailList[m] => k = m
    /\ \A k \in DOMAIN page.emailList :
          /\ ToLowerCase(page.emailList[k]) = page.emailList[k]
          /\ isValidEmail(page.emailList[k])
    /\ page.emailCount = Len(page.emailList)

\* The text with an upper-case address, a repeated one and an invalid one has
\* been added to a list that held one of its addresses.
C36_Witness ==
    /\ output.kind = "addEmailsFromText"
    /\ \E k \in DOMAIN output.arg : output.arg[k] = "B"
    /\ page.emailList = << <<"b","@","y",".","c","o">>, <<"a","@","x",".","i","o">> >>
    /\ page.emailCount = 2

\* C37: the clear after a successful send removes only addresses that were in
\* the request posted, and a failed send leaves the list as it is.
C37_ClearRemovesOnlyPosted ==
    [][(page.isLoading /\ ~page'.isLoading) =>
          IF output'.kind = "fetchOk"
          THEN Range(page.emailList) \subseteq Range(page.posted)
          ELSE page'.emailList = page.emailList]_vars

====
